---------------------------- MODULE Spec2Model ----------------------------
(***************************************************************************)
(* Wildberries box-tariff synchronisation service.                         *)
(*                                                                         *)
(* Four parts of the pipeline are modelled, each with its own              *)
(* specification over the shared state:                                    *)
(*   Spec          - TariffsScheduler (start/stop/runNow/cron callback)    *)
(*   SpecFetch     - WildberriesApiClient.getTariffs with withRetry        *)
(*   SpecReconcile - TariffsUpdater.processAndSaveData on the store        *)
(*   SpecSync      - SheetsSyncService.syncAllSpreadsheets with the writer *)
(***************************************************************************)
EXTENDS Integers, Sequences, FiniteSets, TLC

---------------------------------------------------------------------------
(* Bounds of the model *)

MaxTasks == 2          \* cron task handles that can exist at once
MaxInflight == 2       \* executions of executeScheduledTask in flight
MaxNow == 150          \* minutes of wall-clock time explored
MaxStreak == 3         \* cap of the consecutive-failure counter
MaxInitRuns == 2       \* runs of initializeSpreadsheets
MaxPending == 2        \* refreshToken calls in flight at once
MaxAuthClock == 40     \* minutes of the credential cache's clock

---------------------------------------------------------------------------
(* Scheduler state: fields of TariffsScheduler and of the cron library *)

VARIABLES
  task,        \* this.task: NoTask (null) or the handle cron.schedule returned
  isRunning,   \* this.isRunning
  registered,  \* handles the cron library will fire at the top of each hour
  now,         \* wall clock, in minutes
  inflight,    \* executions of executeScheduledTask awaiting updateAllTariffs
  lastDone,    \* what the last finished execution did
  failStreak,  \* consecutive scheduled executions that threw while Running
  lastCall     \* the last start()/stop() call and what it did

schedVars == <<task, isRunning, registered, now, inflight, lastDone, failStreak, lastCall>>

(* API client state: one getTariffs call of WildberriesApiClient *)

VARIABLES
  fpc,       \* "idle", "attempt" (inside withRetry) or "done"
  fdate,     \* the date argument, a sequence of characters
  attempt,   \* withRetry's attempt parameter
  outcomes,  \* what each request sent through the limiter ended with
  delays,    \* the backoff delays slept, in ms
  fresult    \* "none", "batch" or the class of the error thrown to the caller

fetchVars == <<fpc, fdate, attempt, outcomes, delays, fresult>>

(* Store and reconciliation state: tables warehouses and box_tariffs, the  *)
(* transaction of processAndSaveData and its loop                          *)

VARIABLES
  warehouses,  \* committed rows of table warehouses
  box_tariffs, \* committed rows of table box_tariffs
  trx,         \* the open transaction: its snapshot, working rows, state
  dbClock,     \* the store's clock (CURRENT_TIMESTAMP of the last transaction)
  rpc,         \* "idle", "loop", "done", "threw" or "fetch_failed"
  rbatch,      \* warehouseList of the run
  rdate,       \* date of the run
  ridx,        \* index of the next entry of the loop
  rfaults,     \* the fault met at each entry processed so far
  rres,        \* counters and errors of processAndSaveData, and how it ended
  prevRun      \* the run before this one: when clean, its input and the store it left

recVars == <<warehouses, box_tariffs, trx, dbClock, rpc, rbatch, rdate, ridx, rfaults, rres, prevRun>>

(* Publishing state: table spreadsheets, the documents, and one            *)
(* syncAllSpreadsheets call                                                *)

VARIABLES
  spreadsheets, \* rows of table spreadsheets
  sheetRows,    \* content of each sheet of each document, or Absent
  sfaults,      \* the fault met at each target processed so far
  syncClock,    \* wall clock of the publisher
  spc,          \* "idle", "loop", "done" or "thrown"
  stargets,     \* activeSpreadsheets of the call
  sdata,        \* stocksCoefsData.data of the call
  sidx,         \* index of the next target of the loop
  sops,         \* writer calls made by the call, in order, with their results
  sres,         \* the counters and errors of the call
  sread,        \* the read of the store that failed in the call, or "none"
  sdate,        \* the date the call publishes, or ""
  sformatter    \* which formatTariffsForSheet the build has

syncVars ==
  <<spreadsheets, sheetRows, sfaults, syncClock, spc, stargets, sdata, sidx, sops, sres, sread, sdate,
    sformatter>>

(* Rate limiter state: the Bottleneck instance of each WildberriesApiClient *)
(* of the process, and the requests sent through them                      *)

VARIABLES
  lclock,    \* wall clock, in ticks of minTime (200 ms)
  lim,       \* per client: queued jobs, finish ticks of the running ones,
             \* reservoir, tick of the last launch and of the last refresh
  lprofile,  \* the load: when the jobs are scheduled, how many, how long
             \* a request takes, and through how many clients
  lsubmitted,\* clients whose jobs have been handed to limiter.schedule
  wstart,    \* tick of the first request sent, or NoTick
  wcount     \* requests sent within 60 s of wstart

limVars == <<lclock, lim, lprofile, lsubmitted, wstart, wcount>>

(* Decoding of one numeric field of the response (numericValueSchema) *)

VARIABLES
  npc,       \* "input", "normalized" or "again"
  nin,       \* the value of the field as it arrived
  nout,      \* what the schema made of it
  nagain     \* what the schema makes of nout

numVars == <<npc, nin, nout, nagain>>

(* The derived sort coefficient of one entry (calculateSortingCoefficient) *)

VARIABLES
  cpc,       \* "input" or "computed"
  cin,       \* the three base rates of the entry
  cout       \* the coefficient computed from them

coefVars == <<cpc, cin, cout>>

(* Document writer state: SheetsWriter over the Sheets API, one document *)
(* and one named section                                                  *)

VARIABLES
  wexists,   \* the named section is in the document
  wpc,       \* "idle", "check", "create", "content" or "done"
  wop,       \* the operation in progress: "clear", "batchUpdate", "append", or "none"
  wattempt,  \* loop variable of executeWithRetry for the API call being made
  wouts,     \* outcomes of the attempts of the API call being made or last made
  wdelays,   \* delays slept before the retries of that call, in ms
  wslept,    \* delays slept since the operation was called, in ms
  wissued,   \* API calls the operation has issued, in order
  wchecked,  \* what checkSheetExists answered: "none", "present", "absent" or "denied"
  wresult    \* how the operation ended: "none", "success", "failure" or "thrown"

writerVars ==
  <<wexists, wpc, wop, wattempt, wouts, wdelays, wslept, wissued, wchecked, wresult>>

(* Credential state: GoogleAuthService, the one instance of the process *)

VARIABLES
  tokenInfo,  \* this.tokenInfo: NoToken (null) or the cached access token
  aclock,     \* Date.now(), in minutes
  apending,   \* refreshToken calls awaiting jwtClient.authorize()
  alast       \* the last step of the service: what it was and when

authVars == <<tokenInfo, aclock, apending, alast>>

(* Target initialization state: one SpreadsheetInitializer working on the  *)
(* table spreadsheets                                                      *)

VARIABLES
  ipc,      \* "idle", "loop" or "done"
  iids,     \* googleSheetsSettings.sheetIds of the process
  iidx,     \* index of the next identifier of the loop
  ifaults,  \* the fault met at each identifier processed in this run
  icounts,  \* createdCount, alreadyExistsCount and errorCount of this run
  irun,     \* runs of initializeSpreadsheets started so far
  iprev     \* the faults of the run before this one

initVars == <<ipc, iids, iidx, ifaults, icounts, irun, iprev>>

(* Two reconcile cycles at once, each on its own connection to the store    *)
VARIABLES
  cyc,      \* per cycle: its position, its batch and its open transaction
  wseq      \* the last value drawn from the sequence of warehouses.id

concVars == <<cyc, wseq>>

(* Writer service handle: SheetsWriter.sheetsService and the API calls made *)
(* through it                                                              *)
VARIABLES
  sheetsService,  \* the handle is built (not null)
  ucall           \* the last operation: whether its API call was issued, whether
                  \* getAuthClient ran before it, whether the token was valid
                  \* when the operation began, whether it was refreshed

credVars == <<sheetsService, ucall>>

vars == <<schedVars, fetchVars, recVars, syncVars, limVars, numVars, coefVars, writerVars, authVars, initVars, concVars, credVars>>

\* What the actions of one part leave alone
notSched == <<fetchVars, recVars, syncVars, limVars, numVars, coefVars, writerVars, authVars, initVars, concVars, credVars>>
notFetch == <<schedVars, recVars, syncVars, limVars, numVars, coefVars, writerVars, authVars, initVars, concVars, credVars>>
notRec == <<schedVars, fetchVars, syncVars, limVars, numVars, coefVars, writerVars, authVars, initVars, concVars, credVars>>
notSync == <<schedVars, fetchVars, recVars, limVars, numVars, coefVars, writerVars, authVars, initVars, concVars, credVars>>
notLim == <<schedVars, fetchVars, recVars, syncVars, numVars, coefVars, writerVars, authVars, initVars, concVars, credVars>>
notNum == <<schedVars, fetchVars, recVars, syncVars, limVars, coefVars, writerVars, authVars, initVars, concVars, credVars>>
notCoef == <<schedVars, fetchVars, recVars, syncVars, limVars, numVars, writerVars, authVars, initVars, concVars, credVars>>
notWriter == <<schedVars, fetchVars, recVars, syncVars, limVars, numVars, coefVars, authVars, initVars, concVars, credVars>>
notAuth == <<schedVars, fetchVars, recVars, syncVars, limVars, numVars, coefVars, writerVars, initVars, concVars, credVars>>
notConc == <<schedVars, fetchVars, recVars, syncVars, limVars, numVars, coefVars, writerVars, authVars, initVars, credVars>>
notRecConc == <<schedVars, fetchVars, syncVars, limVars, numVars, coefVars, writerVars, authVars, initVars, credVars>>
notAuthCred == <<schedVars, fetchVars, recVars, syncVars, limVars, numVars, coefVars, writerVars, initVars, concVars>>

NoTask == 0
Null == -1
TaskIds == 1..MaxTasks

StateName == IF isRunning THEN "Running" ELSE "Stopped"

Min(S) == CHOOSE x \in S : \A y \in S : x <= y

\* cron '0 * * * *': the next top of the hour strictly after t
NextHour(t) == ((t \div 60) + 1) * 60

\* getNextRunTime(): null when not running, else now with the hour advanced
\* by one and minutes, seconds and milliseconds set to zero
GetNextRunTime ==
  IF ~isRunning THEN Null ELSE ((now \div 60) + 1) * 60

\* getSchedulerInfo(): the status object
GetSchedulerInfo ==
  [isRunning |-> isRunning, nextRun |-> GetNextRunTime]

(* The updater a cycle runs.  "real" is TariffsUpdater: the fetch ends with  *)
(* a batch or with a classified error, and entryErrors per-entry failures   *)
(* happen while saving.  "stub" is an injected updater (constructor         *)
(* argument) whose updateAllTariffs throws an error of class thrown.        *)
FetchResults == {"batch", "ValidationError", "AuthError", "RetriesExhausted"}
ThrownClasses == {"validation", "auth", "transient", "other"}
Updaters ==
  [kind : {"real"}, fetch : FetchResults, entryErrors : 0..1, thrown : {"none"}]
    \cup
  [kind : {"stub"}, fetch : {"batch"}, entryErrors : {0}, thrown : ThrownClasses]

\* updateTariffsForDate: every exception of the fetch or of the save is
\* caught and turned into a result with success = false; nothing is thrown
UpdateTariffsForDate(fetch, entryErrors) ==
  IF fetch # "batch"
    THEN [threw |-> FALSE, success |-> FALSE, errors |-> 1, thrown |-> "none"]
    ELSE [threw |-> FALSE, success |-> entryErrors = 0, errors |-> entryErrors,
          thrown |-> "none"]

\* updateAllTariffs of the updater held by the scheduler
UpdateAllTariffs(u) ==
  IF u.kind = "stub"
    THEN [threw |-> TRUE, success |-> FALSE, errors |-> 0, thrown |-> u.thrown]
    ELSE UpdateTariffsForDate(u.fetch, u.entryErrors)

\* A variant of executeScheduledTask that rethrows from its catch block
ExecuteScheduledTaskRethrows(r) ==
  [escaped |-> r.threw,
   calls   |-> <<"updateAllTariffs">>,
   log     |-> IF r.threw THEN "critical" ELSE IF r.success THEN "info" ELSE "warn",
   authHint |-> r.threw /\ r.thrown = "auth"]

\* executeScheduledTask given what updateAllTariffs did: the one collaborator
\* call it makes, the log level, whether an exception leaves it, and whether
\* the catch block found '401' in the message of the error it caught (the
\* class "auth" of a thrown error) and logged the hint about WB_API_TOKEN
ExecuteScheduledTask(r) ==
  [escaped |-> FALSE,
   calls   |-> <<"updateAllTariffs">>,
   log     |-> IF r.threw THEN "critical" ELSE IF r.success THEN "info" ELSE "warn",
   authHint |-> r.threw /\ r.thrown = "auth"]

\* runNow(): rethrows whatever leaves executeScheduledTask
RunNowSettles(e) == IF e.escaped THEN "rejected" ELSE "resolved"

NoDone ==
  [src |-> "none", fetch |-> "batch", threw |-> FALSE, success |-> TRUE,
   escaped |-> FALSE, settled |-> "n/a", calls |-> <<>>, log |-> "info",
   authHint |-> FALSE]

NoCall == [op |-> "none", pre |-> "Stopped", threw |-> FALSE, changed |-> FALSE]

InitSched ==
  /\ task = NoTask
  /\ isRunning = FALSE
  /\ registered = {}
  /\ now \in {0, 59}
  /\ inflight = [cron |-> 0, manual |-> 0]
  /\ lastDone = NoDone
  /\ failStreak = 0
  /\ lastCall = NoCall

\* The scheduler before start(), at the top of an hour
IdleSched ==
  /\ task = NoTask
  /\ isRunning = FALSE
  /\ registered = {}
  /\ now = 0
  /\ inflight = [cron |-> 0, manual |-> 0]
  /\ lastDone = NoDone
  /\ failStreak = 0
  /\ lastCall = NoCall

\* A variant of start() without the "already started" guard
StartWithoutGuard ==
  /\ TaskIds \ registered # {}
  /\ LET id == Min(TaskIds \ registered) IN
       /\ task' = id
       /\ registered' = registered \cup {id}
       /\ isRunning' = TRUE
  /\ lastCall' = [op |-> "start", pre |-> StateName, threw |-> FALSE,
                  changed |-> <<task', isRunning', registered'>> # <<task, isRunning, registered>>]
  /\ UNCHANGED <<now, inflight, lastDone, failStreak, notSched>>

\* start(). When cron.schedule throws nothing is registered, this.task is
\* not assigned and the catch rethrows.
Start ==
  /\ \E throws \in BOOLEAN :
       /\ throws => task = NoTask
       /\ IF task # NoTask \/ throws
            THEN UNCHANGED <<task, isRunning, registered>>
            ELSE /\ TaskIds \ registered # {}
                 /\ LET id == Min(TaskIds \ registered) IN
                      /\ task' = id
                      /\ registered' = registered \cup {id}
                      /\ isRunning' = TRUE
       /\ lastCall' = [op |-> "start", pre |-> StateName, threw |-> throws,
                       changed |-> <<task', isRunning', registered'>> # <<task, isRunning, registered>>]
  /\ UNCHANGED <<now, inflight, lastDone, failStreak, notSched>>

\* A variant of stop() that forgets the task without stopping it
StopKeepsTrigger ==
  /\ IF task = NoTask
       THEN UNCHANGED <<task, isRunning, registered>>
       ELSE /\ registered' = registered
            /\ task' = NoTask
            /\ isRunning' = FALSE
  /\ lastCall' = [op |-> "stop", pre |-> StateName, threw |-> FALSE,
                  changed |-> <<task', isRunning', registered'>> # <<task, isRunning, registered>>]
  /\ failStreak' = IF task = NoTask THEN failStreak ELSE 0
  /\ UNCHANGED <<now, inflight, lastDone, notSched>>

\* A variant of stop() that forgets the task and clears the flag although
\* this.task.stop() threw
StopForgetsOnThrow ==
  /\ \E throws \in BOOLEAN :
       /\ throws => task # NoTask
       /\ IF task = NoTask
            THEN UNCHANGED <<task, isRunning, registered>>
            ELSE /\ registered' = IF throws THEN registered ELSE registered \ {task}
                 /\ task' = NoTask
                 /\ isRunning' = FALSE
       /\ lastCall' = [op |-> "stop", pre |-> StateName, threw |-> throws,
                       changed |-> <<task', isRunning', registered'>> # <<task, isRunning, registered>>]
       /\ failStreak' = IF task = NoTask \/ throws THEN failStreak ELSE 0
  /\ UNCHANGED <<now, inflight, lastDone, notSched>>

\* stop(). When this.task.stop() throws the trigger stays registered, the
\* two assignments after it are skipped and the catch rethrows.
Stop ==
  /\ \E throws \in BOOLEAN :
       /\ throws => task # NoTask
       /\ IF task = NoTask \/ throws
            THEN UNCHANGED <<task, isRunning, registered>>
            ELSE /\ registered' = registered \ {task}
                 /\ task' = NoTask
                 /\ isRunning' = FALSE
       /\ lastCall' = [op |-> "stop", pre |-> StateName, threw |-> throws,
                       changed |-> <<task', isRunning', registered'>> # <<task, isRunning, registered>>]
       /\ failStreak' = IF task = NoTask \/ throws THEN failStreak ELSE 0
  /\ UNCHANGED <<now, inflight, lastDone, notSched>>

\* runNow(): enters executeScheduledTask at once, whatever else is in flight
RunNow ==
  /\ inflight.cron + inflight.manual < MaxInflight
  /\ inflight' = [inflight EXCEPT !.manual = @ + 1]
  /\ UNCHANGED <<task, isRunning, registered, now, lastDone, failStreak, lastCall, notSched>>

\* The top of the hour: the cron library invokes the callback of every
\* registered task; each callback enters executeScheduledTask
CronFire ==
  /\ registered # {}
  /\ NextHour(now) <= MaxNow
  /\ inflight.cron + inflight.manual + Cardinality(registered) <= MaxInflight
  /\ now' = NextHour(now)
  /\ inflight' = [inflight EXCEPT !.cron = @ + Cardinality(registered)]
  /\ UNCHANGED <<task, isRunning, registered, lastDone, failStreak, lastCall, notSched>>

\* updateAllTariffs of one execution settles and executeScheduledTask (and,
\* for a manual run, runNow) finishes
CycleReturn(src, u) ==
  /\ inflight[src] > 0
  /\ inflight' = [inflight EXCEPT ![src] = @ - 1]
  /\ LET r == UpdateAllTariffs(u)
         e == ExecuteScheduledTask(r)
     IN /\ lastDone' = [src |-> src, fetch |-> u.fetch, threw |-> r.threw,
                        success |-> r.success, escaped |-> e.escaped,
                        settled |-> IF src = "manual" THEN RunNowSettles(e) ELSE "n/a",
                        calls |-> e.calls, log |-> e.log,
                        authHint |-> e.authHint]
        /\ failStreak' = IF src = "cron" /\ isRunning
                           THEN IF r.threw
                                  THEN (IF failStreak < MaxStreak THEN failStreak + 1 ELSE failStreak)
                                  ELSE 0
                           ELSE failStreak
  /\ UNCHANGED <<task, isRunning, registered, now, lastCall, notSched>>

\* Time passes without reaching the next top of the hour while a task is
\* registered (that instant belongs to CronFire)
Pass ==
  \E d \in {7, 25} :
    /\ now + d <= MaxNow
    /\ registered # {} => now + d < NextHour(now)
    /\ now' = now + d
    /\ UNCHANGED <<task, isRunning, registered, inflight, lastDone, failStreak, lastCall, notSched>>

NextSched ==
  \/ Start
  \/ Stop
  \/ RunNow
  \/ CronFire
  \/ \E src \in {"cron", "manual"}, u \in Updaters : CycleReturn(src, u)
  \/ Pass

---------------------------------------------------------------------------
(* API client: WildberriesApiClient.getTariffs *)

MAX_RETRIES == 3
MaxAttemptsTracked == 5   \* requests of one call the model follows

Digits == {"0", "1", "2", "3", "4", "5", "6", "7", "8", "9"}
DigitChar(n) ==
  CASE n = 0 -> "0" [] n = 1 -> "1" [] n = 2 -> "2" [] n = 3 -> "3" [] n = 4 -> "4"
    [] n = 5 -> "5" [] n = 6 -> "6" [] n = 7 -> "7" [] n = 8 -> "8" [] n = 9 -> "9"
DigitVal(c) == CHOOSE n \in 0..9 : DigitChar(n) = c

Pad2(n) == <<DigitChar(n \div 10), DigitChar(n % 10)>>
Pad4(n) == <<DigitChar(n \div 1000), DigitChar((n \div 100) % 10)>> \o Pad2(n % 100)
Iso(y, m, d) == Pad4(y) \o <<"-">> \o Pad2(m) \o <<"-">> \o Pad2(d)

\* Date arguments tried: digit strings in YYYY-MM-DD form, in and out of the
\* calendar, and strings of another form
DateStrings ==
  {Iso(y, m, d) : y \in {2024, 2025}, m \in {0, 2, 11, 12, 13}, d \in {0, 1, 28, 29, 30, 31, 32}}
    \cup
  { <<"t", "o", "d", "a", "y">>,
    <<>>,
    <<"2", "0", "2", "5", "-", "1", "-", "2">>,
    <<"2", "0", "2", "5", "/", "1", "1", "/", "1", "2">>,
    <<"2", "0", "a", "5", "-", "1", "1", "-", "1", "2">>,
    Iso(2025, 11, 12) \o <<"T">> }

\* /^\d{4}-\d{2}-\d{2}$/
MatchesDateRegex(s) ==
  /\ Len(s) = 10
  /\ \A i \in {1, 2, 3, 4, 6, 7, 9, 10} : s[i] \in Digits
  /\ s[5] = "-"
  /\ s[8] = "-"

YearOf(s) == DigitVal(s[1]) * 1000 + DigitVal(s[2]) * 100 + DigitVal(s[3]) * 10 + DigitVal(s[4])
MonthOf(s) == DigitVal(s[6]) * 10 + DigitVal(s[7])
DayOf(s) == DigitVal(s[9]) * 10 + DigitVal(s[10])

\* new Date(s) of the runtime (node:20, V8) for a string of that form: the
\* month must be 1..12 and the day 1..31; a day past the end of the month
\* rolls over into the next month instead of giving an invalid Date
JsDateIsValid(s) == MonthOf(s) \in 1..12 /\ DayOf(s) \in 1..31

\* isValidDate
IsValidDate(s) ==
  IF ~MatchesDateRegex(s) THEN FALSE ELSE JsDateIsValid(s)

\* What one request through limiter.schedule(axios.get) ends with
RequestOutcomes ==
  {"ok", "ok_malformed", "timeout", "h429", "h500", "h503", "h400", "h401", "h404"}

\* handleApiError (the axios response interceptor): the error class thrown
HandleApiError(o) ==
  CASE o = "h400" -> "DateValidationError"
    [] o = "h401" -> "AuthError"
    [] o = "h429" -> "RateLimitError"
    [] OTHER -> "ApiError"

\* A variant of the give-up test that retries every error class
GiveUpOnlyAtCap(cls, a) == a >= MAX_RETRIES

\* A variant of the give-up test that allows one more attempt
GiveUpOneLate(cls, a) ==
  cls = "AuthError" \/ cls = "DateValidationError" \/ a > MAX_RETRIES

\* withRetry's catch: rethrow at once, or back off and try again
GiveUp(cls, a) ==
  cls = "AuthError" \/ cls = "DateValidationError" \/ a >= MAX_RETRIES

\* Math.pow(2, attempt - 1) * 1000
RetryDelay(a) == (2 ^ (a - 1)) * 1000

IdleFetch ==
  /\ fpc = "idle"
  /\ fdate = <<>>
  /\ attempt = 0
  /\ outcomes = <<>>
  /\ delays = <<>>
  /\ fresult = "none"

\* getTariffs(date) up to the first request: the date is validated first
GetTariffs(d) ==
  /\ fpc = "idle"
  /\ fdate' = d
  /\ outcomes' = <<>>
  /\ delays' = <<>>
  /\ IF ~IsValidDate(d)
       THEN fpc' = "done" /\ fresult' = "DateValidationError" /\ attempt' = 0
       ELSE fpc' = "attempt" /\ fresult' = "none" /\ attempt' = 1
  /\ UNCHANGED notFetch

\* One request inside withRetry, with what follows it: the validated batch
\* is returned, the error is rethrown, or the backoff delay is slept
AttemptRequest(o) ==
  /\ fpc = "attempt"
  /\ Len(outcomes) < MaxAttemptsTracked
  /\ outcomes' = Append(outcomes, o)
  /\ fdate' = fdate
  /\ IF o = "ok"
       THEN fpc' = "done" /\ fresult' = "batch" /\ UNCHANGED <<attempt, delays>>
       ELSE IF o = "ok_malformed"
         THEN fpc' = "done" /\ fresult' = "ApiError" /\ UNCHANGED <<attempt, delays>>
         ELSE IF GiveUp(HandleApiError(o), attempt)
           THEN fpc' = "done" /\ fresult' = HandleApiError(o) /\ UNCHANGED <<attempt, delays>>
           ELSE /\ delays' = Append(delays, RetryDelay(attempt))
                /\ attempt' = attempt + 1
                /\ UNCHANGED <<fpc, fresult>>
  /\ UNCHANGED notFetch

\* The caller has the result; the client is free for the next call
FetchReturn ==
  /\ fpc = "done"
  /\ fpc' = "idle"
  /\ fdate' = <<>>
  /\ attempt' = 0
  /\ outcomes' = <<>>
  /\ delays' = <<>>
  /\ fresult' = "none"
  /\ UNCHANGED notFetch

NextFetch ==
  \/ \E d \in DateStrings : GetTariffs(d)
  \/ \E o \in RequestOutcomes : AttemptRequest(o)
  \/ FetchReturn

---------------------------------------------------------------------------
(* The derived sort coefficient: TariffTransformer *)

\* A rate, or a coefficient, that is null
Absent == -1

\* Base rates tried, in roubles
BaseRates == {Absent, 0, 1, 10, 100}

Rates(d, m, s) ==
  [box_delivery_base |-> d, box_delivery_marketplace_base |-> m, box_storage_base |-> s]

RateTriples == {Rates(d, m, s) : d \in BaseRates, m \in BaseRates, s \in BaseRates}

\* x ?? 0
OrZero(x) == IF x = Absent THEN 0 ELSE x

\* calculateSortingCoefficient, in hundredths:
\* Math.round((d * 0.6 + m * 0.4 + s * 0.3) / 100 * 100) / 100
CalculateSortingCoefficient(b) ==
  LET deliveryBase == OrZero(b.box_delivery_base)
      deliveryMarketplaceBase == OrZero(b.box_delivery_marketplace_base)
      storageBase == OrZero(b.box_storage_base)
      tenths == deliveryBase * 6 + deliveryMarketplaceBase * 4 + storageBase * 3
  IN IF deliveryBase = 0 /\ deliveryMarketplaceBase = 0 /\ storageBase = 0
       THEN Absent
       ELSE (tenths + 5) \div 10

InitCoef ==
  /\ cpc = "input"
  /\ cin \in RateTriples
  /\ cout = Absent

IdleCoef ==
  /\ cpc = "input"
  /\ cin = Rates(Absent, Absent, Absent)
  /\ cout = Absent

\* The coefficient of the entry is computed
ComputeCoefficient ==
  /\ cpc = "input"
  /\ cout' = CalculateSortingCoefficient(cin)
  /\ cpc' = "computed"
  /\ UNCHANGED cin
  /\ UNCHANGED notCoef

\* The next entry arrives
NextEntry ==
  /\ cpc = "computed"
  /\ cin' \in RateTriples
  /\ cout' = Absent
  /\ cpc' = "input"
  /\ UNCHANGED notCoef

NextCoef == ComputeCoefficient \/ NextEntry

---------------------------------------------------------------------------
(* Reconciliation: TariffsUpdater.processAndSaveData over the store *)

\* dbClock never exceeds it: the number of transactions explored
MaxRuns == 2

Names == {"Koledino", "Podolsk"}
Dates == {"2025-11-12", "2025-11-13"}

\* Orders in which the upstream lists distinct locations
NameSeqs ==
  {<<>>} \cup {<<n>> : n \in Names}
         \cup {q \in Names \X Names : q[1] # q[2]}

\* Upstream payload versions: the region name and the rates an entry carries
Payloads ==
  {[geoName |-> "Central", box |-> <<Rates(100, 100, 1), Rates(10, 10, 100)>>],
   [geoName |-> "South", box |-> <<Rates(0, Absent, 10), Rates(Absent, Absent, Absent)>>]}

\* warehouseList values: each entry has warehouseName, geoName and its rates
Batches ==
  {[i \in 1..Len(ns) |->
      [warehouseName |-> ns[i], geoName |-> p.geoName, box |-> p.box[i]]] :
    ns \in NameSeqs, p \in Payloads}

\* What happens to an entry: nothing, an error raised before a statement is
\* sent (wh_client, tf_client), or a statement the store rejects (wh_sql,
\* tf_sql), at the location upsert or at the tariff upsert
FaultKinds == {"none", "wh_client", "wh_sql", "tf_client", "tf_sql"}

Max(S) == CHOOSE x \in S : \A y \in S : y <= x

\* serial primary key of warehouses
NextId(rows) == IF rows = {} THEN 1 ELSE Max({r.id : r \in rows}) + 1

\* INSERT INTO warehouses ... ON CONFLICT (warehouse_name) DO UPDATE
UpsertWarehouse(rows, name, geo, ts) ==
  IF \E r \in rows : r.warehouse_name = name
    THEN {IF r.warehouse_name = name
            THEN [r EXCEPT !.geo_name = geo, !.updated_at = ts]
            ELSE r : r \in rows}
    ELSE rows \cup {[id |-> NextId(rows), warehouse_name |-> name,
                     geo_name |-> geo, created_at |-> ts, updated_at |-> ts]}

\* A variant of the tariff upsert that also rewrites created_at on conflict
UpsertTariffResetsCreated(rows, wid, date, box, ts) ==
  IF \E r \in rows : r.warehouse_id = wid /\ r.tariff_date = date
    THEN {IF r.warehouse_id = wid /\ r.tariff_date = date
            THEN [r EXCEPT !.box = box, !.created_at = ts, !.updated_at = ts]
            ELSE r : r \in rows}
    ELSE rows \cup {[warehouse_id |-> wid, tariff_date |-> date, box |-> box,
                     sorting_coefficient |-> Absent,
                     created_at |-> ts, updated_at |-> ts]}

\* INSERT INTO box_tariffs ... ON CONFLICT (warehouse_id, tariff_date)
\* DO UPDATE; box stands for the rate columns the statement sets. Column
\* sorting_coefficient is not among them: it is NULL in an inserted row and
\* is left as it is in an updated one
UpsertTariff(rows, wid, date, box, ts) ==
  IF \E r \in rows : r.warehouse_id = wid /\ r.tariff_date = date
    THEN {IF r.warehouse_id = wid /\ r.tariff_date = date
            THEN [r EXCEPT !.box = box, !.updated_at = ts]
            ELSE r : r \in rows}
    ELSE rows \cup {[warehouse_id |-> wid, tariff_date |-> date, box |-> box,
                     sorting_coefficient |-> Absent,
                     created_at |-> ts, updated_at |-> ts]}

NoTrx == [open |-> FALSE, aborted |-> FALSE, ts |-> 0, w |-> {}, t |-> {}]

\* processWarehouse inside the transaction tx. A statement sent to an
\* aborted transaction is rejected; a rejected statement aborts it.
ProcessWarehouse(tx, e, f) ==
  IF f = "wh_client" \/ tx.aborted
    THEN [ok |-> FALSE, trx |-> tx, id |-> 0]
    ELSE IF f = "wh_sql"
      THEN [ok |-> FALSE, trx |-> [tx EXCEPT !.aborted = TRUE], id |-> 0]
      ELSE LET w2 == UpsertWarehouse(tx.w, e.warehouseName, e.geoName, tx.ts)
           IN [ok |-> TRUE, trx |-> [tx EXCEPT !.w = w2],
               id |-> (CHOOSE r \in w2 : r.warehouse_name = e.warehouseName).id]

\* TariffTransformer.fromWarehouseData: the row to write, with the sort
\* coefficient computed from the entry's base rates
FromWarehouseData(e, wid, date) ==
  [warehouse_id |-> wid, tariff_date |-> date, box |-> e.box,
   sorting_coefficient |-> CalculateSortingCoefficient(e.box)]

\* processTariffFromWarehouseData inside the transaction tx
ProcessTariffFromWarehouseData(tx, e, wid, date, f) ==
  IF f = "tf_client" \/ tx.aborted
    THEN [ok |-> FALSE, trx |-> tx]
    ELSE IF f = "tf_sql"
      THEN [ok |-> FALSE, trx |-> [tx EXCEPT !.aborted = TRUE]]
      ELSE LET tariffData == FromWarehouseData(e, wid, date)
           IN [ok |-> TRUE,
               trx |-> [tx EXCEPT !.t = UpsertTariff(tx.t, tariffData.warehouse_id,
                                          tariffData.tariff_date, tariffData.box, tx.ts)]]

\* How the trx.commit() or trx.rollback() after the loop can end: it
\* returns, or it throws
EndOutcomes == {"ok", "failed"}

\* How the trx.rollback() of the catch block can end: it returns; it throws
\* and the transaction has ended all the same; it throws and the transaction
\* is still open
CatchOutcomes == {"ok", "failed_ended", "failed_open"}

EndCall(call, outcome) == [call |-> call, outcome |-> outcome]

\* endCalls: the commit and rollback calls issued, in order; threw: whether
\* processAndSaveData ended by throwing; begins: knex.transaction() calls
NoRes ==
  [warehousesProcessed |-> 0, tariffsProcessed |-> 0, errors |-> <<>>, ended |-> "none",
   endCalls |-> <<>>, threw |-> FALSE, begins |-> 0]

NoPrevRun == [ran |-> FALSE, batch |-> <<>>, date |-> "", clean |-> FALSE, t |-> {}]

InitRec ==
  /\ warehouses = {}
  /\ box_tariffs = {}
  /\ trx = NoTrx
  /\ dbClock = 0
  /\ rpc = "idle"
  /\ rbatch = <<>>
  /\ rdate = ""
  /\ ridx = 0
  /\ rfaults = <<>>
  /\ rres = NoRes
  /\ prevRun = NoPrevRun

\* processAndSaveData up to the loop: the transaction is opened. The call
\* before it has returned, with a result or with a failed fetch
BeginReconcile(batch, date) ==
  /\ rpc = "idle"
  /\ dbClock < MaxRuns
  /\ dbClock' = dbClock + 1
  /\ trx' = [open |-> TRUE, aborted |-> FALSE, ts |-> dbClock + 1,
             w |-> warehouses, t |-> box_tariffs]
  /\ rpc' = "loop"
  /\ rbatch' = batch
  /\ rdate' = date
  /\ ridx' = 1
  /\ rfaults' = <<>>
  /\ rres' = [NoRes EXCEPT !.begins = 1]
  /\ UNCHANGED <<warehouses, box_tariffs, prevRun>>
  /\ UNCHANGED notRec

\* One iteration of the loop over warehouseList, with its try/catch
ProcessEntry(f) ==
  /\ rpc = "loop"
  /\ ridx <= Len(rbatch)
  /\ LET e == rbatch[ridx]
         s1 == ProcessWarehouse(trx, e, f)
         s2 == IF s1.ok
                 THEN ProcessTariffFromWarehouseData(s1.trx, e, s1.id, rdate, f)
                 ELSE [ok |-> FALSE, trx |-> s1.trx]
     IN /\ trx' = s2.trx
        /\ rres' = [rres EXCEPT
             !.warehousesProcessed = IF s1.ok THEN @ + 1 ELSE @,
             !.tariffsProcessed = IF s2.ok THEN @ + 1 ELSE @,
             !.errors = IF s2.ok THEN @ ELSE Append(@, e.warehouseName)]
  /\ ridx' = ridx + 1
  /\ rfaults' = Append(rfaults, f)
  /\ UNCHANGED <<warehouses, box_tariffs, dbClock, rpc, rbatch, rdate, prevRun>>
  /\ UNCHANGED notRec

\* A variant of the end of processAndSaveData whose catch block rethrows
\* without a rollback that ends the transaction
CatchRethrows(e2) == TRUE

\* catch (error) { await trx.rollback(); ... throw error; }: whether the
\* transaction is open after it
CatchRollbackEnds(e2) == e2 = "failed_open"

\* After the loop: commit if there were no errors or some tariff was
\* processed, else rollback; when that call throws, the catch block calls
\* rollback and rethrows (e2 is its outcome, and is not drawn when the catch
\* block does not run). COMMIT of an aborted transaction rolls it back.
FinishReconcile(e1, e2) ==
  /\ rpc = "loop"
  /\ ridx > Len(rbatch)
  /\ e1 = "ok" => e2 = "ok"
  /\ LET branch == IF Len(rres.errors) = 0 \/ rres.tariffsProcessed > 0
                     THEN "commit" ELSE "rollback"
         stillOpen == IF e1 = "ok" THEN FALSE ELSE CatchRollbackEnds(e2)
     IN /\ rres' = [rres EXCEPT
                     !.ended = branch,
                     !.threw = (e1 # "ok"),
                     !.endCalls = IF e1 = "ok" THEN <<EndCall(branch, e1)>>
                                  ELSE <<EndCall(branch, e1), EndCall("rollback", e2)>>]
        /\ IF branch = "commit" /\ e1 = "ok" /\ ~trx.aborted
             THEN warehouses' = trx.w /\ box_tariffs' = trx.t
             ELSE UNCHANGED <<warehouses, box_tariffs>>
        /\ trx' = IF stillOpen THEN trx ELSE NoTrx
  /\ rpc' = IF e1 = "ok" THEN "done" ELSE "threw"
  /\ UNCHANGED <<dbClock, rbatch, rdate, ridx, rfaults, prevRun>>
  /\ UNCHANGED notRec

CleanRun == (\A i \in 1..Len(rfaults) : rfaults[i] = "none") /\ ~rres.threw

\* The result updateTariffsForDate builds from what processAndSaveData
\* returned, success = errors.length === 0, or, in its catch, from what
\* processAndSaveData threw
TariffUpdateResult(res) ==
  IF res.threw
    THEN [success |-> FALSE, date |-> rdate, warehousesProcessed |-> 0,
          tariffsProcessed |-> 0, errors |-> <<"transaction">>]
    ELSE [success |-> Len(res.errors) = 0, date |-> rdate,
          warehousesProcessed |-> res.warehousesProcessed,
          tariffsProcessed |-> res.tariffsProcessed, errors |-> res.errors]

\* updateTariffsForDate returns: after processAndSaveData returned its
\* result or threw, when the handle trx goes out of scope, or after the
\* fetch failed
ReturnReconcile ==
  /\ rpc \in {"done", "threw", "fetch_failed"}
  /\ prevRun' = IF rpc = "fetch_failed" THEN prevRun
                  ELSE IF CleanRun
                    THEN [ran |-> TRUE, batch |-> rbatch, date |-> rdate,
                          clean |-> TRUE, t |-> box_tariffs]
                    ELSE [NoPrevRun EXCEPT !.ran = TRUE]
  /\ rpc' = "idle"
  /\ rbatch' = <<>>
  /\ rdate' = ""
  /\ ridx' = 0
  /\ rfaults' = <<>>
  /\ rres' = NoRes
  /\ trx' = NoTrx
  /\ UNCHANGED <<warehouses, box_tariffs, dbClock>>
  /\ UNCHANGED notRec

\* updateTariffsForDate whose fetchTariffsFromApi throws: the catch builds
\* the result and processAndSaveData is not called
FetchFails ==
  /\ rpc = "idle"
  /\ rpc' = "fetch_failed"
  /\ rres' = [NoRes EXCEPT !.errors = <<"fetch">>]
  /\ UNCHANGED <<warehouses, box_tariffs, trx, dbClock, rbatch, rdate, ridx, rfaults, prevRun>>
  /\ UNCHANGED notRec

NextRec ==
  \/ \E b \in Batches, d \in Dates : BeginReconcile(b, d)
  \/ \E f \in FaultKinds : ProcessEntry(f)
  \/ \E e1 \in EndOutcomes, e2 \in CatchOutcomes : FinishReconcile(e1, e2)
  \/ ReturnReconcile
  \/ FetchFails

---------------------------------------------------------------------------
(* Publishing: SheetsSyncService.syncAllSpreadsheets over SheetsWriter *)

\* syncAllSpreadsheets is not started once syncClock has reached it
MaxSyncClock == 4

Docs == {"doc1", "doc2"}
StocksSheet == "stocks_coefs"
SheetNames == {"main", "tariffs", StocksSheet}

\* Keys (spreadsheet_id, sheet_name) of the rows of table spreadsheets
TargetKeys == {<<"doc1", "main">>, <<"doc1", "tariffs">>, <<"doc2", "main">>}

\* Position of the identifiers in the store's collation
StrRank(s) ==
  CASE s = "doc1" -> 1 [] s = "doc2" -> 2
    [] s = "main" -> 1 [] s = "stocks_coefs" -> 2 [] s = "tariffs" -> 3
    [] OTHER -> 0

\* ORDER BY spreadsheet_id, sheet_name
TargetBefore(a, b) ==
  \/ StrRank(a.spreadsheet_id) < StrRank(b.spreadsheet_id)
  \/ /\ a.spreadsheet_id = b.spreadsheet_id
     /\ StrRank(a.sheet_name) <= StrRank(b.sheet_name)

RECURSIVE OrderTargets(_)
OrderTargets(S) ==
  IF S = {} THEN <<>>
  ELSE LET m == CHOOSE x \in S : \A y \in S : TargetBefore(x, y)
       IN <<m>> \o OrderTargets(S \ {m})

\* SpreadsheetService.getActive
GetActive == OrderTargets({r \in spreadsheets : r.is_active})

RECURSIVE OrderByWarehouseId(_)
OrderByWarehouseId(S) ==
  IF S = {} THEN <<>>
  ELSE LET m == CHOOSE x \in S : \A y \in S : x.warehouse_id <= y.warehouse_id
       IN <<m>> \o OrderByWarehouseId(S \ {m})

\* TariffService.getByDate
GetByDate(date) == OrderByWarehouseId({r \in box_tariffs : r.tariff_date = date})

UnknownWarehouse == "Unknown warehouse"

\* warehouseMap.get(tariff.warehouse_id) || 'Неизвестный склад'
WarehouseName(whs, wid) ==
  IF \E w \in whs : w.id = wid
    THEN (CHOOSE w \in whs : w.id = wid).warehouse_name
    ELSE UnknownWarehouse

\* The two formatTariffsForSheet of the source: the first sorts by the
\* stored sorting_coefficient, the second by boxStorageBase
FormatterVersions == {"by_coefficient", "by_storage"}

SortKey(row, version) ==
  IF version = "by_coefficient" THEN row.sorting_coefficient
  ELSE row.box.box_storage_base

\* The comparator is negative: a is non-null and b is null or greater
ComesBefore(a, b, version) ==
  /\ SortKey(a, version) # Absent
  /\ (SortKey(b, version) = Absent \/ SortKey(a, version) < SortKey(b, version))

\* Array.prototype.sort with the formatter's comparator: stable, ascending,
\* null values last
RECURSIVE SortRows(_, _)
SortRows(rows, version) ==
  IF Len(rows) <= 1 THEN rows
  ELSE LET rest == SortRows(Tail(rows), version)
           h == Head(rows)
           k == Cardinality({i \in 1..Len(rest) : ComesBefore(rest[i], h, version)})
       IN SubSeq(rest, 1, k) \o <<h>> \o SubSeq(rest, k + 1, Len(rest))

\* TariffFormatter.getHeaders, as a row of the sheet
HeaderRow ==
  [warehouse_name |-> "Warehouse", tariff_date |-> "Date",
   box |-> Rates(Absent, Absent, Absent), sorting_coefficient |-> Absent]

\* TariffFormatter.prepareStocksCoefs: one value row per tariff
PrepareStocksCoefs(tariffs, whs, version) ==
  [sheetName |-> StocksSheet,
   headers |-> HeaderRow,
   data |-> SortRows([i \in 1..Len(tariffs) |->
              [warehouse_name |-> WarehouseName(whs, tariffs[i].warehouse_id),
               tariff_date |-> tariffs[i].tariff_date,
               box |-> tariffs[i].box,
               sorting_coefficient |-> tariffs[i].sorting_coefficient]], version)]

NoData == [sheetName |-> StocksSheet, headers |-> HeaderRow, data |-> <<>>]

\* SheetsWriter.ensureSheetExists on a document that answers
EnsureSheetExists(sh, doc, sheet) ==
  [sh EXCEPT ![<<doc, sheet>>] =
     IF @.exists THEN @ ELSE [exists |-> TRUE, rows |-> <<>>]]

\* SheetsWriter.clear; down: every call to the document raises
Clear(sh, doc, sheet, down) ==
  IF down THEN [success |-> FALSE, sheets |-> sh]
  ELSE [success |-> TRUE,
        sheets |-> [EnsureSheetExists(sh, doc, sheet) EXCEPT ![<<doc, sheet>>].rows = <<>>]]

\* SheetsWriter.batchUpdate of the rows values at the top of the sheet
BatchUpdate(sh, doc, sheet, values, down) ==
  IF down THEN [success |-> FALSE, sheets |-> sh]
  ELSE [success |-> TRUE,
        sheets |-> [EnsureSheetExists(sh, doc, sheet) EXCEPT ![<<doc, sheet>>].rows =
                      values \o SubSeq(@, Len(values) + 1, Len(@))]]

\* SheetsWriter.append of the rows values after the last row of the sheet
AppendRows(sh, doc, sheet, values, down) ==
  IF down THEN [success |-> FALSE, sheets |-> sh, rowsCount |-> 0]
  ELSE [success |-> TRUE,
        sheets |-> [EnsureSheetExists(sh, doc, sheet) EXCEPT ![<<doc, sheet>>].rows = @ \o values],
        rowsCount |-> Len(values)]

WriterOp(doc, op, sheet, ok) == [doc |-> doc, op |-> op, sheet |-> sheet, ok |-> ok]

\* Faults of one target: the writer call that fails on every retry, or the
\* update of last_synced_at that throws
TargetFaults == {"none", "clear", "batchUpdate", "append", "persist"}

\* A variant of syncSingleSpreadsheet that goes on to the next writer call
\* after a failed one
SyncSingleSpreadsheetKeepsGoing(sh, doc, sheetName, data, f, at) ==
  LET c == Clear(sh, doc, data.sheetName, f = "clear")
      h == BatchUpdate(c.sheets, doc, data.sheetName, <<data.headers>>, f = "batchUpdate")
      a == AppendRows(h.sheets, doc, data.sheetName, data.data, f = "append")
      ok == c.success /\ h.success /\ a.success
  IN [result |-> [spreadsheet_id |-> doc, sheet_name |-> sheetName, success |-> ok,
                  rows_written |-> IF ok THEN a.rowsCount ELSE 0, synced_at |-> at],
      sheets |-> a.sheets,
      ops |-> <<WriterOp(doc, "clear", data.sheetName, c.success),
                WriterOp(doc, "batchUpdate", data.sheetName, h.success),
                WriterOp(doc, "append", data.sheetName, a.success)>>]

\* syncSingleSpreadsheet(spreadsheetId, sheetName, stocksCoefsData)
SyncSingleSpreadsheet(sh, doc, sheetName, data, f, at) ==
  LET c == Clear(sh, doc, data.sheetName, f = "clear")
      h == BatchUpdate(c.sheets, doc, data.sheetName, <<data.headers>>, f = "batchUpdate")
      a == AppendRows(h.sheets, doc, data.sheetName, data.data, f = "append")
      oc == WriterOp(doc, "clear", data.sheetName, c.success)
      oh == WriterOp(doc, "batchUpdate", data.sheetName, h.success)
      oa == WriterOp(doc, "append", data.sheetName, a.success)
      res(ok, n) == [spreadsheet_id |-> doc, sheet_name |-> sheetName, success |-> ok,
                     rows_written |-> n, synced_at |-> at]
  IN IF ~c.success THEN [result |-> res(FALSE, 0), sheets |-> c.sheets, ops |-> <<oc>>]
     ELSE IF ~h.success THEN [result |-> res(FALSE, 0), sheets |-> h.sheets, ops |-> <<oc, oh>>]
     ELSE IF Len(data.data) = 0 THEN [result |-> res(TRUE, 0), sheets |-> h.sheets, ops |-> <<oc, oh>>]
     ELSE IF ~a.success THEN [result |-> res(FALSE, 0), sheets |-> a.sheets, ops |-> <<oc, oh, oa>>]
     ELSE [result |-> res(TRUE, a.rowsCount), sheets |-> a.sheets, ops |-> <<oc, oh, oa>>]

\* A variant of updateLastSynced that also deactivates the target
UpdateLastSyncedDeactivates(rows, doc, sheet, at) ==
  {IF r.spreadsheet_id = doc /\ r.sheet_name = sheet
     THEN [r EXCEPT !.last_synced_at = at, !.updated_at = at, !.is_active = FALSE]
     ELSE r : r \in rows}

\* SpreadsheetService.updateLastSynced: one UPDATE that sets last_synced_at
\* and the row's updated_at
UpdateLastSynced(rows, doc, sheet, at) ==
  {IF r.spreadsheet_id = doc /\ r.sheet_name = sheet
     THEN [r EXCEPT !.last_synced_at = at, !.updated_at = at] ELSE r : r \in rows}

SyncError(kind, doc, sheet) == [kind |-> kind, spreadsheet_id |-> doc, sheet_name |-> sheet]

NoSyncRes ==
  [success |-> FALSE, totalSpreadsheets |-> 0, successfulSyncs |-> 0, failedSyncs |-> 0,
   totalRowsWritten |-> 0, errors |-> <<>>, spreadsheetResults |-> <<>>]

\* A variant of the loop that stops at the first target that fails
AfterTargetStopsOnFailure(i, ok) == IF ok THEN i + 1 ELSE Len(stargets) + 1

\* for (const spreadsheet of activeSpreadsheets): the next target, whether
\* this one succeeded or not
AfterTarget(i, ok) == i + 1

Targets(activity) ==
  {[spreadsheet_id |-> k[1], sheet_name |-> k[2], is_active |-> activity[k],
    last_synced_at |-> 0, updated_at |-> 0] : k \in TargetKeys}

EmptySheets ==
  [k \in Docs \X SheetNames |->
     IF k[2] = StocksSheet THEN [exists |-> FALSE, rows |-> <<>>]
                           ELSE [exists |-> TRUE, rows |-> <<>>]]

IdleSync ==
  /\ spreadsheets = Targets([k \in TargetKeys |-> TRUE])
  /\ sheetRows = EmptySheets
  /\ sfaults = <<>>
  /\ syncClock = 0
  /\ spc = "idle"
  /\ stargets = <<>>
  /\ sdata = NoData
  /\ sidx = 0
  /\ sops = <<>>
  /\ sres = NoSyncRes
  /\ sread = "none"
  /\ sdate = ""
  /\ sformatter = "by_coefficient"

\* Reads of the store that may fail: SpreadsheetService.getActive,
\* TariffService.getByDate, WarehouseService.getAll
ReadFaults == {"none", "getActive", "getByDate", "getAll"}

\* A variant of the outer catch that lets the error escape
OuterCatchRethrows == "thrown"

\* The outer catch of syncAllSpreadsheets returns a result
OuterCatch == "done"

\* syncAllSpreadsheets(date) up to the loop over the active targets
SyncAllSpreadsheets(date, rf) ==
  /\ spc = "idle"
  /\ syncClock < MaxSyncClock
  /\ syncClock' = syncClock + 1
  /\ sfaults' = <<>>
  /\ sops' = <<>>
  /\ sidx' = 1
  /\ sread' = rf
  /\ sdate' = date
  /\ LET active == GetActive
         tariffs == GetByDate(date)
     IN IF rf = "getActive"
          THEN /\ spc' = OuterCatch
               /\ stargets' = <<>>
               /\ sdata' = NoData
               /\ sres' = [NoSyncRes EXCEPT !.errors = <<SyncError("critical_all", "", "")>>]
          ELSE IF Len(active) = 0
          THEN /\ rf = "none"
               /\ spc' = "done"
               /\ stargets' = <<>>
               /\ sdata' = NoData
               /\ sres' = [NoSyncRes EXCEPT !.success = TRUE]
          ELSE IF rf \in {"getByDate", "getAll"}
            THEN /\ spc' = OuterCatch
                 /\ stargets' = active
                 /\ sdata' = NoData
                 /\ sres' = [NoSyncRes EXCEPT !.errors = <<SyncError("critical_all", "", "")>>]
          ELSE IF Len(tariffs) = 0
            THEN /\ spc' = "done"
                 /\ stargets' = active
                 /\ sdata' = NoData
                 /\ sres' = [NoSyncRes EXCEPT !.success = TRUE,
                               !.totalSpreadsheets = Len(active),
                               !.errors = <<SyncError("no_tariffs", "", "")>>]
            ELSE /\ spc' = "loop"
                 /\ stargets' = active
                 /\ sdata' = PrepareStocksCoefs(tariffs, warehouses, sformatter)
                 /\ sres' = [NoSyncRes EXCEPT !.totalSpreadsheets = Len(active)]
  /\ UNCHANGED <<spreadsheets, sheetRows, sformatter>>
  /\ UNCHANGED notSync

\* A variant that records the sync whatever its result
RecordsSyncAlways(ok) == TRUE

\* if (result.success): only then is updateLastSynced called
RecordsSync(ok) == ok

\* One iteration of the loop over the active targets, with its try/catch
SyncTarget(f) ==
  /\ spc = "loop"
  /\ sidx <= Len(stargets)
  /\ LET t == stargets[sidx]
         r == SyncSingleSpreadsheet(sheetRows, t.spreadsheet_id, t.sheet_name,
                                    sdata, f, syncClock)
         ok == r.result.success
     IN /\ sheetRows' = r.sheets
        /\ sops' = sops \o [i \in 1..Len(r.ops) |-> [target |-> sidx, call |-> r.ops[i]]]
        /\ sidx' = AfterTarget(sidx, ok)
        /\ spreadsheets' =
             IF RecordsSync(ok) /\ f # "persist"
               THEN UpdateLastSynced(spreadsheets, t.spreadsheet_id, t.sheet_name,
                                     r.result.synced_at)
               ELSE spreadsheets
        /\ sres' = [sres EXCEPT
             !.spreadsheetResults = Append(@, r.result),
             !.successfulSyncs = IF ok THEN @ + 1 ELSE @,
             !.totalRowsWritten = IF ok THEN @ + r.result.rows_written ELSE @,
             !.failedSyncs = IF ~ok \/ f = "persist" THEN @ + 1 ELSE @,
             !.errors =
               IF ~ok THEN Append(@, SyncError("sync", t.spreadsheet_id, t.sheet_name))
               ELSE IF f = "persist"
                 THEN Append(@, SyncError("critical", t.spreadsheet_id, t.sheet_name))
                 ELSE @]
  /\ sfaults' = Append(sfaults, f)
  /\ syncClock' = syncClock + 1
  /\ UNCHANGED <<spc, stargets, sdata, sread, sdate, sformatter>>
  /\ UNCHANGED notSync

\* After the loop: success = failedSyncs === 0, and the result is built
SyncFinish ==
  /\ spc = "loop"
  /\ sidx > Len(stargets)
  /\ sres' = [sres EXCEPT !.success = (sres.failedSyncs = 0)]
  /\ spc' = "done"
  /\ UNCHANGED <<spreadsheets, sheetRows, sfaults, syncClock, stargets, sdata, sidx, sops, sread, sdate,
               sformatter>>
  /\ UNCHANGED notSync

\* The caller has the result
SyncReturn ==
  /\ spc = "done"
  /\ spc' = "idle"
  /\ stargets' = <<>>
  /\ sdata' = NoData
  /\ sidx' = 0
  /\ sops' = <<>>
  /\ sfaults' = <<>>
  /\ sres' = NoSyncRes
  /\ sread' = "none"
  /\ sdate' = ""
  /\ UNCHANGED <<spreadsheets, sheetRows, syncClock, sformatter>>
  /\ UNCHANGED notSync

NextSync ==
  \/ \E d \in Dates, rf \in ReadFaults : SyncAllSpreadsheets(d, rf)
  \/ \E f \in TargetFaults : SyncTarget(f)
  \/ SyncFinish
  \/ SyncReturn

\* The store after the batch b was reconciled for the date d without a fault
RECURSIVE Reconciled(_, _, _, _)
Reconciled(tx, b, d, i) ==
  IF i > Len(b) THEN tx
  ELSE LET s1 == ProcessWarehouse(tx, b[i], "none")
           s2 == ProcessTariffFromWarehouseData(s1.trx, b[i], s1.id, d, "none")
       IN Reconciled(s2.trx, b, d, i + 1)

---------------------------------------------------------------------------
(* Rate limiting: the Bottleneck limiter each WildberriesApiClient creates *)

\* The clock stops at this tick
MaxTick == 380

\* maxConcurrent
MaxConcurrent == 5
\* reservoir and reservoirRefreshAmount
ReservoirAmount == 60
\* reservoirRefreshInterval, in ticks of minTime: 60 * 1000 / 200
RefreshTicks == 300
\* 60 seconds, in ticks
WindowTicks == (60 * 1000) \div 200

NoTick == -1

\* Client instances of one process: the one of the scheduler's updater and
\* the one of the exported tariffsUpdater
Clients == {"scheduler", "exported"}

\* Loads: jobs handed to limiter.schedule at tick start, size per client,
\* each request answered after latency ticks, by one client or by both
Profiles ==
  [start : {0, 240}, size : {8, 120}, latency : {1, 40}, clients : {{"scheduler"}, Clients}]

NewLimiter ==
  [queued |-> 0, running |-> <<>>, reservoir |-> ReservoirAmount,
   lastLaunch |-> NoTick, lastRefresh |-> 0]

InitLim ==
  /\ lclock = 0
  /\ lim = [c \in Clients |-> NewLimiter]
  /\ lprofile \in Profiles
  /\ lsubmitted = {}
  /\ wstart = NoTick
  /\ wcount = 0

IdleLim ==
  /\ lclock = 0
  /\ lim = [c \in Clients |-> NewLimiter]
  /\ lprofile = [start |-> 0, size |-> 8, latency |-> 1, clients |-> {"scheduler"}]
  /\ lsubmitted = {}
  /\ wstart = NoTick
  /\ wcount = 0

\* limiter.schedule(() => axios.get(url)), once per attempt of each call
Schedule(c) ==
  /\ c \in lprofile.clients \ lsubmitted
  /\ lclock = lprofile.start
  /\ lim' = [lim EXCEPT ![c].queued = @ + lprofile.size]
  /\ lsubmitted' = lsubmitted \cup {c}
  /\ UNCHANGED <<lclock, lprofile, wstart, wcount>>
  /\ UNCHANGED notLim

\* The limiter may start the next queued job of client c
CanLaunch(c) ==
  /\ lim[c].queued > 0
  /\ Len(lim[c].running) < MaxConcurrent
  /\ lim[c].reservoir > 0
  /\ lim[c].lastLaunch < lclock

\* The limiter of client c starts a job: the request is sent
Launch(c) ==
  /\ CanLaunch(c)
  /\ lim' = [lim EXCEPT ![c].queued = @ - 1,
                        ![c].running = Append(@, lclock + lprofile.latency),
                        ![c].reservoir = @ - 1,
                        ![c].lastLaunch = lclock]
  /\ wstart' = IF wstart = NoTick THEN lclock ELSE wstart
  /\ wcount' = IF wstart = NoTick \/ lclock < wstart + WindowTicks
                 THEN wcount + 1 ELSE wcount
  /\ UNCHANGED <<lclock, lprofile, lsubmitted>>
  /\ UNCHANGED notLim

CanComplete(c) ==
  lim[c].running # <<>> /\ Head(lim[c].running) <= lclock

\* The oldest request of client c is answered
Complete(c) ==
  /\ CanComplete(c)
  /\ lim' = [lim EXCEPT ![c].running = Tail(@)]
  /\ UNCHANGED <<lclock, lprofile, lsubmitted, wstart, wcount>>
  /\ UNCHANGED notLim

CanRefresh(c) == lclock >= lim[c].lastRefresh + RefreshTicks

\* Every reservoirRefreshInterval the reservoir is set to the refresh amount
Refresh(c) ==
  /\ CanRefresh(c)
  /\ lim' = [lim EXCEPT ![c].reservoir = ReservoirAmount, ![c].lastRefresh = lclock]
  /\ UNCHANGED <<lclock, lprofile, lsubmitted, wstart, wcount>>
  /\ UNCHANGED notLim

\* minTime passes once nothing is due at this tick
Tick ==
  /\ lclock < MaxTick
  /\ \A c \in Clients : ~CanLaunch(c) /\ ~CanComplete(c) /\ ~CanRefresh(c)
  /\ \A c \in lprofile.clients \ lsubmitted : lclock # lprofile.start
  /\ lclock' = lclock + 1
  /\ UNCHANGED <<lim, lprofile, lsubmitted, wstart, wcount>>
  /\ UNCHANGED notLim

NextLim ==
  \/ \E c \in Clients : Schedule(c)
  \/ \E c \in Clients : Launch(c)
  \/ \E c \in Clients : Complete(c)
  \/ \E c \in Clients : Refresh(c)
  \/ Tick

---------------------------------------------------------------------------
(* Numeric fields of the response: numericValueSchema *)

MaxStrLen == 4

\* Characters of the strings tried: digits, both decimal separators, the
\* sign that is also the "no value" sentinel, and a letter
NumChars == {"0", "1", "2", "5", ",", ".", "-", "a"}

NumStrings == UNION {[1..n -> NumChars] : n \in 0..MaxStrLen}

\* Field values. A number is m / 10^e with no trailing zero in its fraction
Str(s) == [t |-> "str", s |-> s, m |-> 0, e |-> 0]
Num(m, e) == [t |-> "num", s |-> <<>>, m |-> m, e |-> e]
NullValue == [t |-> "null", s |-> <<>>, m |-> 0, e |-> 0]
BoolValue == [t |-> "bool", s |-> <<>>, m |-> 0, e |-> 0]
NaN == [t |-> "NaN", s |-> <<>>, m |-> 0, e |-> 0]
ZodError == [t |-> "ZodError", s |-> <<>>, m |-> 0, e |-> 0]
NoValue == [t |-> "none", s |-> <<>>, m |-> 0, e |-> 0]

RECURSIVE Canon(_, _)
Canon(m, e) ==
  IF e > 0 /\ m % 10 = 0 THEN Canon(m \div 10, e - 1) ELSE Num(m, e)

\* JSON numbers tried
NumberInputs == {Num(125, 1), Num(12, 0), Num(0, 0), Num(-5, 0), Num(-15, 1)}

NumericInputs ==
  {Str(s) : s \in NumStrings} \cup NumberInputs \cup {NullValue, BoolValue}

\* Length of the run of digits of s that starts at position p
DigitRun(s, p) ==
  Max({k \in 0..(Len(s) - p + 1) : \A j \in p..(p + k - 1) : s[j] \in Digits})

\* Value of the k digits of s that start at position p
RECURSIVE DigitsValue(_, _, _)
DigitsValue(s, p, k) ==
  IF k = 0 THEN 0 ELSE DigitsValue(s, p, k - 1) * 10 + DigitVal(s[p + k - 1])

\* Where parseFloat stops reading s: after the longest prefix that is a
\* decimal literal (sign, digits, point, digits); 0 when there is none
ParsedLength(s) ==
  LET p == IF Len(s) >= 1 /\ s[1] = "-" THEN 2 ELSE 1
      ni == DigitRun(s, p)
      dot == p + ni <= Len(s) /\ s[p + ni] = "."
      nf == IF dot THEN DigitRun(s, p + ni + 1) ELSE 0
  IN IF ni = 0 /\ nf = 0 THEN 0
     ELSE (p - 1) + ni + (IF dot THEN 1 + nf ELSE 0)

\* parseFloat(s): the value of that prefix, NaN when there is none
ParseFloat(s) ==
  LET neg == Len(s) >= 1 /\ s[1] = "-"
      p == IF neg THEN 2 ELSE 1
      ni == DigitRun(s, p)
      dot == p + ni <= Len(s) /\ s[p + ni] = "."
      nf == IF dot THEN DigitRun(s, p + ni + 1) ELSE 0
      mag == DigitsValue(s, p, ni) * (10 ^ nf) + DigitsValue(s, p + ni + 1, nf)
  IN IF ni = 0 /\ nf = 0 THEN NaN
     ELSE Canon(IF neg THEN 0 - mag ELSE mag, nf)

\* A variant of the replacement that leaves the comma in place
KeepComma(s) == s

\* val.replace(',', '.'): the first comma only
ReplaceFirstComma(s) ==
  LET commas == {i \in 1..Len(s) : s[i] = ","}
  IN IF commas = {} THEN s
     ELSE [j \in 1..Len(s) |-> IF j = Min(commas) THEN "." ELSE s[j]]

\* numericValueSchema: z.union([z.string().transform(..), z.number(), z.null()])
NumericValueSchema(v) ==
  CASE v.t = "str" ->
         IF v.s = <<"-">> \/ v.s = <<>> THEN NullValue
         ELSE LET parsed == ParseFloat(ReplaceFirstComma(v.s))
              IN IF parsed = NaN THEN NullValue ELSE parsed
    [] v.t = "num" -> v
    [] v.t = "null" -> NullValue
    [] OTHER -> ZodError

InitNum ==
  /\ npc = "input"
  /\ nin \in NumericInputs
  /\ nout = NoValue
  /\ nagain = NoValue

IdleNum ==
  /\ npc = "input"
  /\ nin = NullValue
  /\ nout = NoValue
  /\ nagain = NoValue

\* The schema parses the field of the response
Normalize ==
  /\ npc = "input"
  /\ nout' = NumericValueSchema(nin)
  /\ npc' = "normalized"
  /\ UNCHANGED <<nin, nagain>>
  /\ UNCHANGED notNum

\* The schema parses a value it produced
NormalizeAgain ==
  /\ npc = "normalized"
  /\ nout # ZodError
  /\ nagain' = NumericValueSchema(nout)
  /\ npc' = "again"
  /\ UNCHANGED <<nin, nout>>
  /\ UNCHANGED notNum

NextNum == Normalize \/ NormalizeAgain

---------------------------------------------------------------------------
(* Document writer: SheetsWriter.clear, batchUpdate and append *)

\* defaultRetryOptions
maxRetries == 3
baseDelay == 1000
maxDelay == 30000
backoffFactor == 2

WriterOps == {"clear", "batchUpdate", "append"}

\* How one attempt of an API call ends: the answer, or the error whose
\* message names a timeout, the network, 429, 503, a quota, 400, or Forbidden
ApiOutcomes == {"ok", "timeout", "network", "h429", "h503", "quota", "h400", "forbidden"}

\* shouldRetry(error)
ShouldRetry(o) == o \in {"timeout", "network", "h429", "h503", "quota"}

\* checkSheetExists answers false for 'Not Found', 'permission', 'Forbidden'
Denied(o) == o = "forbidden"

\* Math.min(baseDelay * Math.pow(backoffFactor, attempt - 1), maxDelay)
WriterDelay(n) == Min({baseDelay * (backoffFactor ^ (n - 1)), maxDelay})

\* The API call each step of an operation makes
ApiOf(pc, op) ==
  CASE pc = "check" -> "spreadsheets.get"
    [] pc = "create" -> "addSheet"
    [] pc = "content" /\ op = "clear" -> "values.clear"
    [] pc = "content" /\ op = "batchUpdate" -> "values.update"
    [] OTHER -> "values.append"

ContentCalls == {"values.clear", "values.update", "values.append"}

\* A variant in which the operation goes on to its content call although
\* the section could not be created
AfterCreateFailureContinues == "content"

\* if (!sheetExists) return { success: false, ... }: the operation ends
AfterCreateFailure == "done"

InitWriter ==
  /\ wexists \in BOOLEAN
  /\ wpc = "idle"
  /\ wop = "none"
  /\ wattempt = 0
  /\ wouts = <<>>
  /\ wdelays = <<>>
  /\ wslept = 0
  /\ wissued = <<>>
  /\ wchecked = "none"
  /\ wresult = "none"

IdleWriter ==
  /\ wexists = FALSE
  /\ wpc = "idle"
  /\ wop = "none"
  /\ wattempt = 0
  /\ wouts = <<>>
  /\ wdelays = <<>>
  /\ wslept = 0
  /\ wissued = <<>>
  /\ wchecked = "none"
  /\ wresult = "none"

\* clear / batchUpdate / append is called: ensureSheetExists comes first
WriterCall(op) ==
  /\ wpc = "idle"
  /\ wpc' = "check"
  /\ wop' = op
  /\ wattempt' = 0
  /\ wouts' = <<>>
  /\ wdelays' = <<>>
  /\ wslept' = 0
  /\ wissued' = <<>>
  /\ wchecked' = "none"
  /\ wresult' = "none"
  /\ UNCHANGED wexists
  /\ UNCHANGED notWriter

\* One pass of the loop of executeWithRetry for the API call of the step,
\* with what the caller of executeWithRetry does when it returns or throws
WriterAttempt(o) ==
  /\ wpc \in {"check", "create", "content"}
  /\ (wpc = "create" /\ wexists) => o # "ok"
  /\ wouts' = IF wattempt = 0 THEN <<o>> ELSE Append(wouts, o)
  /\ wdelays' = IF wattempt = 0 THEN <<>> ELSE Append(wdelays, WriterDelay(wattempt))
  /\ wslept' = IF wattempt = 0 THEN wslept ELSE wslept + WriterDelay(wattempt)
  /\ wissued' = IF wattempt = 0 THEN Append(wissued, ApiOf(wpc, wop)) ELSE wissued
  /\ IF o = "ok"
       THEN /\ wattempt' = 0
            /\ CASE wpc = "check" ->
                      /\ wchecked' = IF wexists THEN "present" ELSE "absent"
                      /\ wpc' = IF wexists THEN "content" ELSE "create"
                      /\ UNCHANGED <<wexists, wresult>>
                 [] wpc = "create" ->
                      /\ wexists' = TRUE
                      /\ wpc' = "content"
                      /\ UNCHANGED <<wchecked, wresult>>
                 [] OTHER ->
                      /\ wpc' = "done"
                      /\ wresult' = "success"
                      /\ UNCHANGED <<wexists, wchecked>>
       ELSE IF wattempt = maxRetries \/ ~ShouldRetry(o)
         THEN /\ wattempt' = 0
              /\ UNCHANGED wexists
              /\ CASE wpc = "check" /\ Denied(o) ->
                        /\ wchecked' = "denied"
                        /\ wpc' = "create"
                        /\ UNCHANGED wresult
                   [] wpc = "check" /\ ~Denied(o) ->
                        /\ wpc' = "done"
                        /\ wresult' = "failure"
                        /\ UNCHANGED wchecked
                   [] wpc = "create" ->
                        /\ wpc' = AfterCreateFailure
                        /\ wresult' = IF AfterCreateFailure = "done" THEN "failure" ELSE wresult
                        /\ UNCHANGED wchecked
                   [] OTHER ->
                        /\ wpc' = "done"
                        /\ wresult' = "failure"
                        /\ UNCHANGED wchecked
         ELSE /\ wattempt' = wattempt + 1
              /\ UNCHANGED <<wexists, wpc, wchecked, wresult>>
  /\ UNCHANGED wop
  /\ UNCHANGED notWriter

\* The caller has the OperationResult
WriterReturn ==
  /\ wpc = "done"
  /\ wpc' = "idle"
  /\ wop' = "none"
  /\ UNCHANGED <<wexists, wattempt, wouts, wdelays, wslept, wissued, wchecked, wresult>>
  /\ UNCHANGED notWriter

NextWriter ==
  \/ \E op \in WriterOps : WriterCall(op)
  \/ \E o \in ApiOutcomes : WriterAttempt(o)
  \/ WriterReturn

---------------------------------------------------------------------------
(* Credential cache: GoogleAuthService *)

\* 5 * 60 * 1000 ms, in minutes
TOKEN_REFRESH_THRESHOLD == 5

\* Date.now() + 3600 * 1000 when the answer carries no expiry_date, in minutes
DefaultLifetime == 60

NoToken == [accessToken |-> "", expiryDate |-> 0]

\* What jwtClient.authorize() settles with: a token and, possibly, the
\* minutes until it expires (0: no expiry_date in the answer); an answer
\* without access_token; a rejection
AuthorizeOutcomes ==
  [kind : {"token"}, lifetime : {0, 3, 30}]
    \cup {[kind |-> "no_token", lifetime |-> 0], [kind |-> "rejected", lifetime |-> 0]}

\* A variant of isTokenValid that ignores the threshold
IsTokenValidUntilExpiry(info, t) ==
  /\ info # NoToken
  /\ info.accessToken # ""
  /\ info.expiryDate > t

\* isTokenValid()
IsTokenValid(info, t) ==
  /\ info # NoToken
  /\ info.accessToken # ""
  /\ info.expiryDate > t + TOKEN_REFRESH_THRESHOLD

NoStep == [op |-> "none", at |-> 0]

InitAuth ==
  /\ tokenInfo = NoToken
  /\ aclock = 0
  /\ apending = 0
  /\ alast = NoStep

IdleAuth ==
  /\ tokenInfo = NoToken
  /\ aclock = 0
  /\ apending = 0
  /\ alast = NoStep

\* getAuthClient(): returns the client at once when the token is valid,
\* otherwise enters refreshToken, which awaits jwtClient.authorize()
GetAuthClient ==
  /\ IF IsTokenValid(tokenInfo, aclock)
       THEN /\ alast' = [op |-> "reused", at |-> aclock]
            /\ UNCHANGED apending
       ELSE /\ apending < MaxPending
            /\ apending' = apending + 1
            /\ alast' = [op |-> "refreshing", at |-> aclock]
  /\ UNCHANGED <<tokenInfo, aclock>>
  /\ UNCHANGED notAuth

\* authorize() of one refreshToken settles: the token is stored and the
\* caller of getAuthClient gets the client, or tokenInfo is reset and the
\* error is thrown to that caller
RefreshSettles(a) ==
  /\ apending > 0
  /\ apending' = apending - 1
  /\ IF a.kind = "token"
       THEN /\ tokenInfo' = [accessToken |-> "token",
                             expiryDate |-> aclock + (IF a.lifetime = 0
                                                        THEN DefaultLifetime
                                                        ELSE a.lifetime)]
            /\ alast' = [op |-> "refreshed", at |-> aclock]
       ELSE /\ tokenInfo' = NoToken
            /\ alast' = [op |-> "failed", at |-> aclock]
  /\ UNCHANGED aclock
  /\ UNCHANGED notAuth

AuthTick ==
  \E d \in {1, 20} :
    /\ aclock + d <= MaxAuthClock
    /\ aclock' = aclock + d
    /\ UNCHANGED <<tokenInfo, apending, alast>>
    /\ UNCHANGED notAuth

NextAuth ==
  \/ GetAuthClient
  \/ \E a \in AuthorizeOutcomes : RefreshSettles(a)
  \/ AuthTick

---------------------------------------------------------------------------
(* Target initialization: SpreadsheetInitializer.initializeSpreadsheets *)

\* googleSheetsSettings.defaultSheetName
DefaultSheetName == "main"

\* Configured lists GOOGLE_SHEET_IDS, with and without a repeated identifier
SheetIdLists ==
  {<<"doc1">>, <<"doc1", "doc2">>, <<"doc2", "doc1", "doc2">>, <<"doc3", "doc1">>}

\* What a store call of the loop can meet: SELECT or INSERT rejected
InitFaults == {"none", "getById", "create"}

\* The publishing state apart from the table
syncRest ==
  <<sheetRows, sfaults, syncClock, spc, stargets, sdata, sidx, sops, sres, sread, sdate, sformatter>>

\* Tables the initializer can find: empty, or rows that administration has
\* deactivated or that have been synchronised
FoundTables ==
  {{},
   {[spreadsheet_id |-> "doc1", sheet_name |-> "main", is_active |-> FALSE,
     last_synced_at |-> 5, updated_at |-> 5]},
   {[spreadsheet_id |-> "doc1", sheet_name |-> "tariffs", is_active |-> TRUE,
     last_synced_at |-> 0, updated_at |-> 0],
    [spreadsheet_id |-> "doc2", sheet_name |-> "main", is_active |-> TRUE,
     last_synced_at |-> 7, updated_at |-> 7]}}

\* A variant of getById that matches no row
GetByIdFindsNothing(rows, id, name) == {}

\* SpreadsheetService.getById: the rows with the key, at most one
GetById(rows, id, name) ==
  {r \in rows : r.spreadsheet_id = id /\ r.sheet_name = name}

\* SpreadsheetService.create under the unique index on (spreadsheet_id,
\* sheet_name): the table with the new row, or the INSERT is rejected
Create(rows, id, name) ==
  IF \E r \in rows : r.spreadsheet_id = id /\ r.sheet_name = name
    THEN [ok |-> FALSE, rows |-> rows]
    ELSE [ok |-> TRUE,
          rows |-> rows \cup {[spreadsheet_id |-> id, sheet_name |-> name,
                               is_active |-> TRUE, last_synced_at |-> 0,
                               updated_at |-> 0]}]

NoCounts == [created |-> 0, alreadyExists |-> 0, errors |-> 0]

IdleInit ==
  /\ ipc = "idle"
  /\ iids = <<"doc1">>
  /\ iidx = 0
  /\ ifaults = <<>>
  /\ icounts = NoCounts
  /\ irun = 0
  /\ iprev = <<>>

InitInit ==
  /\ ipc = "idle"
  /\ iids \in SheetIdLists
  /\ iidx = 0
  /\ ifaults = <<>>
  /\ icounts = NoCounts
  /\ irun = 0
  /\ iprev = <<>>

\* initializeSpreadsheets up to the loop
BeginInitialize ==
  /\ ipc = "idle"
  /\ irun < MaxInitRuns
  /\ ipc' = "loop"
  /\ iidx' = 1
  /\ iprev' = ifaults
  /\ ifaults' = <<>>
  /\ icounts' = NoCounts
  /\ irun' = irun + 1
  /\ UNCHANGED <<iids, spreadsheets>>
  /\ UNCHANGED syncRest
  /\ UNCHANGED <<schedVars, fetchVars, recVars, limVars, numVars, coefVars, writerVars, authVars, concVars, credVars>>

\* One pass of the loop over sheetIds, with its try/catch
InitializeOne(f) ==
  /\ ipc = "loop"
  /\ iidx <= Len(iids)
  /\ LET id == iids[iidx]
         found == GetById(spreadsheets, id, DefaultSheetName)
         made == Create(spreadsheets, id, DefaultSheetName)
     IN IF f = "getById"
          THEN /\ icounts' = [icounts EXCEPT !.errors = @ + 1]
               /\ UNCHANGED spreadsheets
          ELSE IF found # {}
            THEN /\ icounts' = [icounts EXCEPT !.alreadyExists = @ + 1]
                 /\ UNCHANGED spreadsheets
            ELSE IF f = "create" \/ ~made.ok
              THEN /\ icounts' = [icounts EXCEPT !.errors = @ + 1]
                   /\ UNCHANGED spreadsheets
              ELSE /\ icounts' = [icounts EXCEPT !.created = @ + 1]
                   /\ spreadsheets' = made.rows
  /\ ifaults' = Append(ifaults, f)
  /\ iidx' = iidx + 1
  /\ UNCHANGED <<ipc, iids, irun, iprev>>
  /\ UNCHANGED syncRest
  /\ UNCHANGED <<schedVars, fetchVars, recVars, limVars, numVars, coefVars, writerVars, authVars, concVars, credVars>>

\* After the loop: the counts are logged and the call returns
FinishInitialize ==
  /\ ipc = "loop"
  /\ iidx > Len(iids)
  /\ ipc' = "done"
  /\ UNCHANGED <<iids, iidx, ifaults, icounts, irun, iprev, spreadsheets>>
  /\ UNCHANGED syncRest
  /\ UNCHANGED <<schedVars, fetchVars, recVars, limVars, numVars, coefVars, writerVars, authVars, concVars, credVars>>

\* The process is started again
RestartInitialize ==
  /\ ipc = "done"
  /\ ipc' = "idle"
  /\ UNCHANGED <<iids, iidx, ifaults, icounts, irun, iprev, spreadsheets>>
  /\ UNCHANGED syncRest
  /\ UNCHANGED <<schedVars, fetchVars, recVars, limVars, numVars, coefVars, writerVars, authVars, concVars, credVars>>

NextInit ==
  \/ BeginInitialize
  \/ \E f \in InitFaults : InitializeOne(f)
  \/ FinishInitialize
  \/ RestartInitialize

---------------------------------------------------------------------------
(* Two reconcile cycles for the same date at once: each runs               *)
(* processAndSaveData in its own transaction, READ COMMITTED, on the same  *)
(* store                                                                   *)

Cycles == {"A", "B"}

\* The date both cycles reconcile
ConcDate == "2025-11-12"

NoCycle ==
  [pc |-> "idle", batch |-> <<>>, idx |-> 0, tx |-> NoTrx, tariffsProcessed |-> 0,
   errors |-> 0, committed |-> FALSE, overlapped |-> FALSE]

IdleConc == cyc = [c \in Cycles |-> NoCycle] /\ wseq = 0

Other(c) == CHOOSE o \in Cycles : o # c

SameTariffKey(r, o) == r.warehouse_id = o.warehouse_id /\ r.tariff_date = o.tariff_date

\* What a statement of cycle c reads: the committed rows, and in their place
\* the rows its own transaction wrote (tx.w and tx.t hold those)
ViewWarehouses(c) ==
  {r \in warehouses : \A o \in cyc[c].tx.w : o.id # r.id} \cup cyc[c].tx.w

ViewTariffs(c) ==
  {r \in box_tariffs : \A o \in cyc[c].tx.t : ~SameTariffKey(r, o)} \cup cyc[c].tx.t

\* A store without the unique index on warehouse_name, where no statement
\* waits for another transaction
HoldsNoLock(c, name) == FALSE

\* ON CONFLICT (warehouse_name): the statement waits while the other
\* transaction is open and has written a row of that name
Blocked(c, name) == \E o \in cyc[Other(c)].tx.w : o.warehouse_name = name

\* const trx = await knex.transaction()
BeginCycle(c, batch) ==
  /\ cyc[c].pc = "idle"
  /\ dbClock' = dbClock + 1
  /\ cyc' = [cyc EXCEPT
       ![c] = [@ EXCEPT !.pc = "loop", !.batch = batch, !.idx = 1,
                        !.tx = [NoTrx EXCEPT !.open = TRUE, !.ts = dbClock + 1],
                        !.overlapped = cyc[Other(c)].pc = "loop"],
       ![Other(c)] = [@ EXCEPT !.overlapped = @ \/ cyc[Other(c)].pc = "loop"]]
  /\ UNCHANGED <<warehouses, box_tariffs, wseq>>
  /\ UNCHANGED <<trx, rpc, rbatch, rdate, ridx, rfaults, rres, prevRun>>
  /\ UNCHANGED notRecConc

\* The statement of an entry is rejected: the catch of the loop records it
Rejected(c) ==
  [cyc EXCEPT ![c] = [@ EXCEPT !.idx = @ + 1, !.errors = @ + 1, !.tx.aborted = TRUE]]

\* One iteration of the loop of cycle c: processWarehouse, then
\* processTariffFromWarehouseData. The id of an inserted location is drawn
\* from the sequence, which every INSERT advances.
CycleEntry(c) ==
  /\ cyc[c].pc = "loop"
  /\ cyc[c].idx <= Len(cyc[c].batch)
  /\ LET e == cyc[c].batch[cyc[c].idx]
         tx == cyc[c].tx
         view == ViewWarehouses(c)
         known == \E r \in view : r.warehouse_name = e.warehouseName
         w2 == UpsertWarehouse(view, e.warehouseName, e.geoName, tx.ts)
         r0 == CHOOSE r \in w2 : r.warehouse_name = e.warehouseName
         row == IF known THEN r0 ELSE [r0 EXCEPT !.id = wseq + 1]
         tariffData == FromWarehouseData(e, row.id, ConcDate)
         t2 == UpsertTariff(ViewTariffs(c), tariffData.warehouse_id,
                            tariffData.tariff_date, tariffData.box, tx.ts)
         trow == CHOOSE r \in t2 : SameTariffKey(r, tariffData)
     IN IF tx.aborted
          THEN cyc' = Rejected(c) /\ wseq' = wseq
          ELSE /\ ~Blocked(c, e.warehouseName)
               /\ wseq' = wseq + 1
               /\ cyc' = [cyc EXCEPT ![c] = [@ EXCEPT
                    !.idx = @ + 1,
                    !.tariffsProcessed = @ + 1,
                    !.tx.w = {o \in @ : o.id # row.id} \cup {row},
                    !.tx.t = {o \in @ : ~SameTariffKey(o, trow)} \cup {trow}]]
  /\ UNCHANGED <<warehouses, box_tariffs, dbClock>>
  /\ UNCHANGED <<trx, rpc, rbatch, rdate, ridx, rfaults, rres, prevRun>>
  /\ UNCHANGED notRecConc

WaitsForOther(c) ==
  /\ cyc[c].pc = "loop"
  /\ cyc[c].idx <= Len(cyc[c].batch)
  /\ ~cyc[c].tx.aborted
  /\ Blocked(c, cyc[c].batch[cyc[c].idx].warehouseName)

\* Each cycle waits for a row the other wrote: the store detects the
\* deadlock and rejects the statement of one of them
DeadlockVictim(c) ==
  /\ WaitsForOther(c)
  /\ WaitsForOther(Other(c))
  /\ cyc' = Rejected(c)
  /\ UNCHANGED <<warehouses, box_tariffs, dbClock, wseq>>
  /\ UNCHANGED <<trx, rpc, rbatch, rdate, ridx, rfaults, rres, prevRun>>
  /\ UNCHANGED notRecConc

\* After the loop of cycle c: commit if there were no errors or some tariff
\* was processed, else rollback. COMMIT of an aborted transaction rolls it
\* back. Either way the rows the transaction wrote are released.
FinishCycle(c) ==
  /\ cyc[c].pc = "loop"
  /\ cyc[c].idx > Len(cyc[c].batch)
  /\ LET commits == (cyc[c].errors = 0 \/ cyc[c].tariffsProcessed > 0) /\ ~cyc[c].tx.aborted
     IN /\ IF commits
             THEN warehouses' = ViewWarehouses(c) /\ box_tariffs' = ViewTariffs(c)
             ELSE UNCHANGED <<warehouses, box_tariffs>>
        /\ cyc' = [cyc EXCEPT ![c] = [@ EXCEPT !.pc = "done", !.tx = NoTrx,
                                               !.committed = commits]]
  /\ UNCHANGED <<dbClock, wseq>>
  /\ UNCHANGED <<trx, rpc, rbatch, rdate, ridx, rfaults, rres, prevRun>>
  /\ UNCHANGED notRecConc

NextConc ==
  \/ \E c \in Cycles, b \in Batches : BeginCycle(c, b)
  \/ \E c \in Cycles : CycleEntry(c)
  \/ \E c \in Cycles : DeadlockVictim(c)
  \/ \E c \in Cycles : FinishCycle(c)

---------------------------------------------------------------------------
(* The writer's service handle: SheetsWriter.getSheetsService over          *)
(* GoogleAuthService.getAuthClient                                          *)

NoUse ==
  [issued |-> FALSE, checked |-> FALSE, valid |-> FALSE, refreshed |-> FALSE,
   cached |-> FALSE]

IdleCred == sheetsService = FALSE /\ ucall = NoUse

\* if (!this.sheetsService) await this.initializeSheetsService(): whether
\* the handle is returned as it is
HandleCached(built) == built

\* initializeSheetsService: getAuthClient, which refreshes the token unless
\* it is valid, then google.sheets(...); a is what authorize() answers when
\* it is called. ok is FALSE when it throws.
InitializeSheetsService(a) ==
  IF IsTokenValid(tokenInfo, aclock)
    THEN [ok |-> TRUE, token |-> tokenInfo]
    ELSE IF a.kind = "token"
      THEN [ok |-> TRUE,
            token |-> [accessToken |-> "token",
                       expiryDate |-> aclock + (IF a.lifetime = 0 THEN DefaultLifetime
                                                                  ELSE a.lifetime)]]
      ELSE [ok |-> FALSE, token |-> NoToken]

\* new SheetsWriter(): the constructor starts initializeSheetsService and
\* does not await it
ConstructWriter(a) ==
  /\ ~sheetsService
  /\ ucall = NoUse
  /\ LET r == InitializeSheetsService(a)
     IN /\ tokenInfo' = r.token
        /\ sheetsService' = r.ok
        /\ alast' = [op |-> IF r.ok THEN "refreshed" ELSE "failed", at |-> aclock]
  /\ UNCHANGED <<aclock, apending, ucall>>
  /\ UNCHANGED notAuthCred

\* One API call of a writer operation: const sheetsService = await
\* this.getSheetsService(), then the request through it. When the handle
\* cannot be built the operation fails and no request is issued.
WriterUsesService(a) ==
  /\ IF HandleCached(sheetsService)
       THEN /\ ucall' = [issued |-> TRUE, checked |-> FALSE,
                         valid |-> IsTokenValid(tokenInfo, aclock),
                         refreshed |-> FALSE, cached |-> TRUE]
            /\ UNCHANGED <<tokenInfo, sheetsService, alast>>
       ELSE LET r == InitializeSheetsService(a)
            IN /\ tokenInfo' = r.token
               /\ sheetsService' = r.ok
               /\ alast' = [op |-> IF r.ok THEN "refreshed" ELSE "failed", at |-> aclock]
               /\ ucall' = [issued |-> r.ok, checked |-> TRUE,
                            valid |-> IsTokenValid(tokenInfo, aclock),
                            refreshed |-> r.ok /\ ~IsTokenValid(tokenInfo, aclock),
                            cached |-> FALSE]
  /\ UNCHANGED <<aclock, apending>>
  /\ UNCHANGED notAuthCred

NextCred ==
  \/ \E a \in AuthorizeOutcomes : ConstructWriter(a)
  \/ \E a \in AuthorizeOutcomes : WriterUsesService(a)
  \/ AuthTick

---------------------------------------------------------------------------
(* Specifications *)

\* The scheduler
Init == InitSched /\ IdleFetch /\ InitRec /\ IdleSync /\ IdleLim /\ IdleNum /\ IdleCoef /\ IdleWriter /\ IdleAuth /\ IdleInit /\ IdleConc /\ IdleCred
Spec == Init /\ [][NextSched]_vars

\* The API client
InitFetch == IdleSched /\ IdleFetch /\ InitRec /\ IdleSync /\ IdleLim /\ IdleNum /\ IdleCoef /\ IdleWriter /\ IdleAuth /\ IdleInit /\ IdleConc /\ IdleCred
SpecFetch == InitFetch /\ [][NextFetch]_vars

\* Reconciliation
InitReconcile == IdleSched /\ IdleFetch /\ InitRec /\ IdleSync /\ IdleLim /\ IdleNum /\ IdleCoef /\ IdleWriter /\ IdleAuth /\ IdleInit /\ IdleConc /\ IdleCred
SpecReconcile == InitReconcile /\ [][NextRec]_vars

\* The publisher starts on a store that reconciliation has filled
InitSync ==
  /\ IdleSched /\ IdleFetch /\ IdleLim /\ IdleNum /\ IdleCoef /\ IdleWriter /\ IdleAuth /\ IdleInit /\ IdleConc /\ IdleCred
  /\ \E b \in Batches :
       LET tx == Reconciled([NoTrx EXCEPT !.ts = 1], b, "2025-11-12", 1)
       IN warehouses = tx.w /\ box_tariffs = tx.t
  /\ trx = NoTrx /\ dbClock = 1 /\ rpc = "idle" /\ rbatch = <<>> /\ rdate = ""
  /\ ridx = 0 /\ rfaults = <<>> /\ rres = NoRes /\ prevRun = NoPrevRun
  /\ \E act \in [TargetKeys -> BOOLEAN] : spreadsheets = Targets(act)
  /\ sheetRows = EmptySheets
  /\ sfaults = <<>> /\ syncClock = 0 /\ spc = "idle" /\ stargets = <<>>
  /\ sdata = NoData /\ sidx = 0 /\ sops = <<>> /\ sres = NoSyncRes /\ sread = "none"
  /\ sdate = ""
  /\ sformatter \in FormatterVersions

SpecSync == InitSync /\ [][NextSync]_vars

\* The rate limiters
InitLimiter == IdleSched /\ IdleFetch /\ InitRec /\ IdleSync /\ InitLim /\ IdleNum /\ IdleCoef /\ IdleWriter /\ IdleAuth /\ IdleInit /\ IdleConc /\ IdleCred
SpecLimiter == InitLimiter /\ [][NextLim]_vars

\* The decoding of one numeric field
InitNumeric == IdleSched /\ IdleFetch /\ InitRec /\ IdleSync /\ IdleLim /\ InitNum /\ IdleCoef /\ IdleWriter /\ IdleAuth /\ IdleInit /\ IdleConc /\ IdleCred
SpecNumeric == InitNumeric /\ [][NextNum]_vars

\* The computation of the sort coefficient
InitCoefficient ==
  IdleSched /\ IdleFetch /\ InitRec /\ IdleSync /\ IdleLim /\ IdleNum /\ InitCoef /\ IdleWriter /\ IdleAuth /\ IdleInit /\ IdleConc /\ IdleCred
SpecCoefficient == InitCoefficient /\ [][NextCoef]_vars

\* The document writer
InitWriterSpec ==
  /\ IdleSched /\ IdleFetch /\ InitRec /\ IdleSync /\ IdleLim /\ IdleNum /\ IdleCoef
  /\ InitWriter /\ IdleAuth /\ IdleInit /\ IdleConc /\ IdleCred
SpecWriter == InitWriterSpec /\ [][NextWriter]_vars

\* The credential cache
InitAuthSpec ==
  /\ IdleSched /\ IdleFetch /\ InitRec /\ IdleSync /\ IdleLim /\ IdleNum /\ IdleCoef
  /\ IdleWriter /\ InitAuth /\ IdleInit /\ IdleConc /\ IdleCred
SpecAuth == InitAuthSpec /\ [][NextAuth]_vars

\* The initialization of the targets, on a table as it can be found
InitInitializer ==
  /\ IdleSched /\ IdleFetch /\ InitRec /\ IdleLim /\ IdleNum /\ IdleCoef
  /\ IdleWriter /\ IdleAuth /\ IdleConc /\ IdleCred
  /\ spreadsheets \in FoundTables
  /\ sheetRows = EmptySheets
  /\ sfaults = <<>> /\ syncClock = 0 /\ spc = "idle" /\ stargets = <<>>
  /\ sdata = NoData /\ sidx = 0 /\ sops = <<>> /\ sres = NoSyncRes /\ sread = "none"
  /\ sdate = "" /\ sformatter = "by_coefficient"
  /\ InitInit
SpecInitializer == InitInitializer /\ [][NextInit]_vars
\* Two reconcile cycles at once
InitConcurrent ==
  /\ IdleSched /\ IdleFetch /\ InitRec /\ IdleSync /\ IdleLim /\ IdleNum /\ IdleCoef
  /\ IdleWriter /\ IdleAuth /\ IdleInit /\ IdleConc /\ IdleCred
SpecConcurrent == InitConcurrent /\ [][NextConc]_vars
\* The writer's service handle and the credential
InitCredential ==
  /\ IdleSched /\ IdleFetch /\ InitRec /\ IdleSync /\ IdleLim /\ IdleNum /\ IdleCoef
  /\ IdleWriter /\ InitAuth /\ IdleInit /\ IdleConc /\ IdleCred
SpecCredential == InitCredential /\ [][NextCred]_vars
---------------------------------------------------------------------------
(* Claims about the scheduler, checked under Spec *)

\* C1: on the scheduled path an exception thrown by the cycle never leaves
\* the trigger callback, and after any number of consecutive throwing cycles
\* the scheduler is still Running, its trigger is still registered and the
\* reported nextRun is non-null and later than the current time.
C1_ScheduledFailureContained ==
  /\ (lastDone.src = "cron" /\ lastDone.threw) => ~lastDone.escaped
  /\ failStreak > 0 =>
       /\ isRunning
       /\ task # NoTask
       /\ task \in registered
       /\ GetSchedulerInfo.nextRun # Null
       /\ GetSchedulerInfo.nextRun > now

C1_Witness ==
  /\ failStreak >= 2
  /\ lastDone.src = "cron"
  /\ lastDone.threw
  /\ isRunning

\* C7: whenever the sequence run by runNow() fails (the updater throws, or
\* the upstream fetch ends in an error), the promise of runNow() rejects.
C7_RunNowPropagates ==
  (lastDone.src = "manual" /\ (lastDone.threw \/ lastDone.fetch # "batch"))
    => lastDone.settled = "rejected"

C7_Witness ==
  /\ lastDone.src = "manual"
  /\ lastDone.fetch = "AuthError"
  /\ lastDone.settled = "resolved"

\* C8: every scheduled tick runs the reconcile step and then, in the same
\* cycle, the publish step (syncAllSpreadsheets).
C8_TickReconcilesThenPublishes ==
  lastDone.src = "cron" => lastDone.calls = <<"updateAllTariffs", "syncAllSpreadsheets">>

C8_Witness ==
  /\ lastDone.src = "cron"
  /\ lastDone.success
  /\ lastDone.calls = <<"updateAllTariffs">>

\* C9: at most one pipeline cycle executes at any time, under any
\* interleaving of scheduled ticks and runNow() calls.
C9_SingleCycleAtATime ==
  inflight.cron + inflight.manual <= 1

C9_Witness == inflight.cron = 1 /\ inflight.manual = 1

\* C10: start() while Running and stop() while Stopped neither throw nor
\* change the scheduler, and at most one trigger is ever registered.
C10_RedundantCallsAreNoOps ==
  /\ Cardinality(registered) <= 1
  /\ (lastCall.op = "start" /\ lastCall.pre = "Running") =>
       (~lastCall.threw /\ ~lastCall.changed)
  /\ (lastCall.op = "stop" /\ lastCall.pre = "Stopped") =>
       (~lastCall.threw /\ ~lastCall.changed)

C10_Witness ==
  /\ lastCall.op = "start"
  /\ lastCall.pre = "Running"
  /\ Cardinality(registered) = 1

\* C11: after stop() returns no scheduled cycle starts until start() is
\* called again, and stop() does not cancel a cycle that is in progress: it
\* leaves the executions in flight as they are.
C11_StopOnlyPreventsFutureFires ==
  [][/\ (inflight'.cron > inflight.cron) => (isRunning /\ task # NoTask)
     /\ (isRunning /\ ~isRunning') => inflight' = inflight]_vars

C11_Witness ==
  /\ lastCall.op = "stop"
  /\ lastCall.changed
  /\ ~isRunning
  /\ registered = {}
  /\ inflight.cron = 1
  /\ now >= 60

---------------------------------------------------------------------------
(* Claims about the API client, checked under SpecFetch *)

TransientOutcomes == {"timeout", "h429", "h500", "h503"}

AllTransient(os) == \A i \in 1..Len(os) : os[i] \in TransientOutcomes

C12_ClientErrorsNotRetried ==
  \A i \in 1..Len(outcomes) :
    outcomes[i] \in {"h400", "h401"} =>
      /\ i = Len(outcomes)
      /\ Len(delays) = i - 1
      /\ fpc = "done"
      /\ fresult = (IF outcomes[i] = "h400" THEN "DateValidationError" ELSE "AuthError")

C12_Witness ==
  /\ fpc = "done"
  /\ outcomes = <<"h401">>
  /\ delays = <<>>
  /\ fresult = "AuthError"

\* C13: a failed attempt is retried only when its failure is transient
\* (network timeout, HTTP 429, HTTP 5xx); a failure of any other class, such
\* as an HTTP 404 answer, is thrown to the caller after that one attempt.
C13_OnlyTransientRetried ==
  \A i \in 1..Len(outcomes) :
    outcomes[i] \notin (TransientOutcomes \cup {"ok"}) =>
      (i = Len(outcomes) /\ fpc = "done" /\ fresult # "batch")

C13_Witness ==
  /\ fpc = "done"
  /\ outcomes = <<"h404", "h404", "h404">>
  /\ delays = <<1000, 2000>>
  /\ fresult = "ApiError"

DaysInMonth(y, m) ==
  IF m \in {4, 6, 9, 11} THEN 30
  ELSE IF m = 2
    THEN (IF (y % 4 = 0 /\ y % 100 # 0) \/ y % 400 = 0 THEN 29 ELSE 28)
    ELSE 31

RealCalendarDate(s) ==
  /\ MatchesDateRegex(s)
  /\ MonthOf(s) \in 1..12
  /\ DayOf(s) >= 1
  /\ DayOf(s) <= DaysInMonth(YearOf(s), MonthOf(s))

\* C6: a date string that does not match YYYY-MM-DD or is no real calendar
\* date fails with the validation error before any request is sent; a valid
\* date ends with a batch or a classified error.
C6_InvalidDateNeverReachesNetwork ==
  /\ (fpc # "idle" /\ ~RealCalendarDate(fdate)) =>
       (fpc = "done" /\ fresult = "DateValidationError" /\ outcomes = <<>>)
  /\ (fpc = "done" /\ RealCalendarDate(fdate)) =>
       fresult \in {"batch", "DateValidationError", "AuthError", "RateLimitError", "ApiError"}

C6_Witness ==
  /\ fpc = "done"
  /\ fdate = Iso(2025, 2, 30)
  /\ outcomes = <<"ok">>
  /\ fresult = "batch"

---------------------------------------------------------------------------
(* Claims about reconciliation, checked under SpecReconcile *)

\* Entries of the finished run that met a fault of their own
FaultyEntries == {i \in 1..Len(rfaults) : rfaults[i] # "none"}

\* TariffRecords of the run's date that the run's transaction left committed
WrittenTariffs == {r \in box_tariffs : r.tariff_date = rdate /\ r.updated_at = dbClock}

\* C3: for a batch of N entries of which exactly K raise a per-entry error,
\* the run processes all N entries, commits exactly N-K TariffRecords and
\* reports exactly K errors (tariffsProcessed = N-K, errors[] has K entries).
C3_PartialFailureCommitsTheRest ==
  rpc = "done" =>
    LET N == Len(rbatch)
        K == Cardinality(FaultyEntries)
    IN /\ Len(rfaults) = N
       /\ Len(rres.errors) = K
       /\ rres.tariffsProcessed = N - K
       /\ Cardinality(WrittenTariffs) = N - K

C3_Witness ==
  /\ rpc = "done"
  /\ rfaults = <<"none", "tf_sql">>
  /\ rres.tariffsProcessed = 1
  /\ rres.ended = "commit"
  /\ WrittenTariffs = {}

\* The second of two fault-free runs over the same batch and date has ended
SecondIdenticalRun ==
  /\ rpc = "done"
  /\ prevRun.ran /\ prevRun.clean
  /\ prevRun.batch = rbatch /\ prevRun.date = rdate
  /\ CleanRun

\* C4: running the reconciliation twice with identical upstream data leaves
\* exactly one Location per name and exactly one TariffRecord per
\* (location, date) pair; the second run overwrites the fields of the
\* existing rows, leaves created_at unchanged and advances updated_at.
C4_ReconcileTwiceIdempotent ==
  /\ \A r1, r2 \in warehouses : r1.warehouse_name = r2.warehouse_name => r1 = r2
  /\ \A r1, r2 \in box_tariffs :
       (r1.warehouse_id = r2.warehouse_id /\ r1.tariff_date = r2.tariff_date) => r1 = r2
  /\ SecondIdenticalRun =>
       /\ Cardinality(box_tariffs) = Cardinality(prevRun.t)
       /\ \A i \in 1..Len(rbatch) :
            LET e == rbatch[i]
                ws == {w \in warehouses : w.warehouse_name = e.warehouseName}
            IN /\ Cardinality(ws) = 1
               /\ \A w \in ws :
                    LET new == {r \in box_tariffs :
                                  r.warehouse_id = w.id /\ r.tariff_date = rdate}
                        old == {r \in prevRun.t :
                                  r.warehouse_id = w.id /\ r.tariff_date = rdate}
                    IN /\ Cardinality(new) = 1 /\ Cardinality(old) = 1
                       /\ w.geo_name = e.geoName
                       /\ \A n \in new, o \in old :
                            /\ n.box = e.box
                            /\ n.created_at = o.created_at
                            /\ n.updated_at > o.updated_at

C4_Witness == SecondIdenticalRun /\ Len(rbatch) = 2 /\ Cardinality(box_tariffs) >= 2

---------------------------------------------------------------------------
(* Claims about publishing, checked under SpecSync *)

\* Targets of the finished loop whose writer failed on every retry
FailedWriters == {i \in 1..Len(sfaults) : sfaults[i] \in {"clear", "batchUpdate", "append"}}

\* The loop has ended with exactly one target's writer failing and no other fault
OneWriterFailed ==
  /\ spc = "done"
  /\ Len(stargets) >= 1 /\ Len(sdata.data) >= 1
  /\ Cardinality(FailedWriters) = 1
  /\ \A i \in 1..Len(sfaults) : sfaults[i] # "persist"

\* The writer calls made for target i, in order
CallsOf(i) == SelectSeq(sops, LAMBDA o : o.target = i)

\* C2: given M active targets and non-empty data for the date, if exactly
\* one target's writer fails on every retry, all M targets are processed,
\* successfulSyncs = M-1 and failedSyncs = 1 with an error entry for the
\* failed target, and every other target ends with a successful clear,
\* header write and row append.
C2_PublishIsolation ==
  OneWriterFailed =>
    LET M == Len(stargets) IN
    /\ Len(sfaults) = M /\ Len(sres.spreadsheetResults) = M
    /\ sres.totalSpreadsheets = M
    /\ sres.successfulSyncs = M - 1
    /\ sres.failedSyncs = 1
    /\ ~sres.success
    /\ Len(sres.errors) = 1
    /\ \A i \in FailedWriters :
         /\ sres.errors[1].spreadsheet_id = stargets[i].spreadsheet_id
         /\ sres.errors[1].sheet_name = stargets[i].sheet_name
         /\ ~sres.spreadsheetResults[i].success
    /\ \A i \in (1..M) \ FailedWriters :
         /\ sres.spreadsheetResults[i].success
         /\ sres.spreadsheetResults[i].rows_written = Len(sdata.data)
         /\ Len(CallsOf(i)) = 3
         /\ CallsOf(i)[1].call.op = "clear"
         /\ CallsOf(i)[2].call.op = "batchUpdate"
         /\ CallsOf(i)[3].call.op = "append"
         /\ \A j \in 1..3 : CallsOf(i)[j].call.ok
                            /\ CallsOf(i)[j].call.doc = stargets[i].spreadsheet_id

C2_Witness ==
  /\ OneWriterFailed
  /\ Len(stargets) = 3
  /\ sfaults[1] # "none"
  /\ sres.successfulSyncs = 2
  /\ Len(sdata.data) = 2

---------------------------------------------------------------------------
(* Claims about rate limiting, checked under SpecLimiter *)

RECURSIVE SumInFlight(_)
SumInFlight(S) ==
  IF S = {} THEN 0
  ELSE LET c == CHOOSE x \in S : TRUE
       IN Len(lim[c].running) + SumInFlight(S \ {c})

\* C14: all upstream requests of the process draw from one shared budget:
\* counting every attempt of every call, at most 5 requests are in flight
\* at any moment and no 60-second window contains more than 60 requests.
C14_OneSharedRateBudget ==
  /\ SumInFlight(Clients) <= 5
  /\ wcount <= 60

C14_Witness ==
  /\ lprofile.clients = {"scheduler"}
  /\ wcount > 60
  /\ lclock < wstart + WindowTicks

\* C15: an answer whose top-level shape does not decode fails the whole call
\* with the validation error class; that attempt is the last one, no backoff
\* follows it, and no batch is returned.
C15_MalformedResponseIsValidationError ==
  \A i \in 1..Len(outcomes) :
    outcomes[i] = "ok_malformed" =>
      /\ i = Len(outcomes)
      /\ Len(delays) = i - 1
      /\ fpc = "done"
      /\ fresult = "DateValidationError"

\* The part of C15 about retries and partial results alone
C15_MalformedResponseNotRetried ==
  \A i \in 1..Len(outcomes) :
    outcomes[i] = "ok_malformed" =>
      (i = Len(outcomes) /\ Len(delays) = i - 1 /\ fpc = "done" /\ fresult # "batch")

C15_Witness ==
  /\ fpc = "done"
  /\ outcomes = <<"h503", "ok_malformed">>
  /\ delays = <<1000>>
  /\ fresult = "ApiError"

WrittenWarehouses == {w \in warehouses : w.updated_at = dbClock}

\* C17: the transaction of a run is committed whenever at least one entry
\* succeeded, so that what the succeeded entries wrote is in the store, and
\* is rolled back only when every entry failed; after a rollback the store
\* holds no Location and no TariffRecord written by that run.
C17_CommitIffSomeEntrySucceeded ==
  rpc = "done" =>
    /\ rres.tariffsProcessed > 0 =>
         /\ rres.ended = "commit"
         /\ Cardinality(WrittenTariffs) = rres.tariffsProcessed
    /\ rres.ended = "rollback" =>
         /\ rres.tariffsProcessed = 0
         /\ WrittenTariffs = {} /\ WrittenWarehouses = {}

\* The part of C17 about the branch taken and about the rollback alone
C17_RollbackLeavesNothing ==
  rpc = "done" =>
    /\ rres.tariffsProcessed > 0 => rres.ended = "commit"
    /\ rres.ended = "rollback" =>
         /\ rres.tariffsProcessed = 0 /\ Len(rres.errors) = Len(rbatch)
         /\ WrittenTariffs = {} /\ WrittenWarehouses = {}

C17_Witness ==
  /\ rpc = "done"
  /\ rfaults = <<"none", "wh_sql">>
  /\ rres.tariffsProcessed = 1
  /\ rres.ended = "commit"
  /\ WrittenTariffs = {} /\ WrittenWarehouses = {}

\* C18: syncAllSpreadsheets never throws: whichever of the read of the
\* targets, the reads of tariffs and locations, the writer operations and
\* the update of the last-sync timestamp fail, the call ends with a result
\* whose errors[] has an entry for each failure.
C18_SyncAllNeverThrows ==
  /\ spc \in {"idle", "loop", "done"}
  /\ spc = "done" =>
       /\ sread # "none" =>
            /\ ~sres.success
            /\ \E j \in 1..Len(sres.errors) : sres.errors[j].kind = "critical_all"
       /\ \A i \in 1..Len(sfaults) :
            sfaults[i] # "none" =>
              /\ ~sres.success
              /\ \E j \in 1..Len(sres.errors) :
                   /\ sres.errors[j].kind = (IF sfaults[i] = "persist" THEN "critical" ELSE "sync")
                   /\ sres.errors[j].spreadsheet_id = stargets[i].spreadsheet_id
                   /\ sres.errors[j].sheet_name = stargets[i].sheet_name
       /\ Len(sres.errors) >=
            Cardinality({i \in 1..Len(sfaults) : sfaults[i] # "none"})

C18_Witness ==
  /\ spc = "done"
  /\ sread = "getByDate"
  /\ Len(stargets) >= 1
  /\ Len(sres.errors) = 1
  /\ ~sres.success

\* A run in which a writer and the timestamp update failed has ended
C18_WitnessLoop ==
  /\ spc = "done"
  /\ sread = "none"
  /\ \E i, j \in 1..Len(sfaults) : sfaults[i] = "persist" /\ sfaults[j] = "clear"
  /\ Len(sres.errors) = 2

\* The writer calls made by the step that is being taken
NewCalls == SubSeq(sops', Len(sops) + 1, Len(sops'))

\* C19: the last-sync timestamp of a target changes only in the step of the
\* run that handles that target, only if the target is active, and only if
\* its clear, header write and row append have all just succeeded; the key
\* and the activity of the row stay. Targets that failed, inactive targets
\* and all targets of a short-circuited run keep their timestamp.
C19_TimestampOnlyOnSuccess ==
  [][\A r \in spreadsheets' :
       r \notin spreadsheets =>
         /\ spc = "loop" /\ sidx <= Len(stargets)
         /\ r.spreadsheet_id = stargets[sidx].spreadsheet_id
         /\ r.sheet_name = stargets[sidx].sheet_name
         /\ r.is_active
         /\ [r EXCEPT !.last_synced_at = stargets[sidx].last_synced_at,
                       !.updated_at = stargets[sidx].updated_at] \in spreadsheets
         /\ Len(NewCalls) = 3
         /\ NewCalls[1].call.op = "clear" /\ NewCalls[2].call.op = "batchUpdate"
         /\ NewCalls[3].call.op = "append"
         /\ \A k \in 1..3 : NewCalls[k].call.ok]_vars

\* A run has ended in which one target was written and one failed: the
\* first has the timestamp of the run, the second and the inactive ones none
C19_Witness ==
  /\ spc = "done"
  /\ \E i, j \in 1..Len(sfaults) :
       /\ sfaults[i] = "none" /\ sfaults[j] = "append"
       /\ \E r \in spreadsheets :
            /\ r.spreadsheet_id = stargets[i].spreadsheet_id
            /\ r.sheet_name = stargets[i].sheet_name
            /\ r.last_synced_at > 0
       /\ \E r \in spreadsheets :
            /\ r.spreadsheet_id = stargets[j].spreadsheet_id
            /\ r.sheet_name = stargets[j].sheet_name
            /\ r.last_synced_at = 0
  /\ \E r \in spreadsheets : ~r.is_active /\ r.last_synced_at = 0

\* A run over non-empty data has ended with no fault at all
CleanSync ==
  /\ spc = "done" /\ sread = "none"
  /\ Len(stargets) >= 1 /\ Len(sdata.data) >= 1
  /\ Len(sfaults) = Len(stargets)
  /\ \A i \in 1..Len(sfaults) : sfaults[i] = "none"

\* C20: the clear, header write and row append made for an active target
\* are addressed to that target's own section of its document, and after a
\* run without faults the section of every active target, also of two
\* targets that share a document, holds the header row and the value rows.
C20_OwnSectionWritten ==
  /\ \A k \in 1..Len(sops) :
       /\ sops[k].call.doc = stargets[sops[k].target].spreadsheet_id
       /\ sops[k].call.sheet = stargets[sops[k].target].sheet_name
  /\ CleanSync =>
       \A i \in 1..Len(stargets) :
         sheetRows[<<stargets[i].spreadsheet_id, stargets[i].sheet_name>>].rows
           = <<sdata.headers>> \o sdata.data

\* The part of C20 about the document alone
C20_OwnDocumentWritten ==
  /\ \A k \in 1..Len(sops) : sops[k].call.doc = stargets[sops[k].target].spreadsheet_id
  /\ CleanSync =>
       \A i \in 1..Len(stargets) :
         sheetRows[<<stargets[i].spreadsheet_id, StocksSheet>>].rows
           = <<sdata.headers>> \o sdata.data

\* Two targets of one document are synced without fault: their sections
\* are empty and the rows are in the sheet stocks_coefs of the document
C20_Witness ==
  /\ CleanSync
  /\ \E i, j \in 1..Len(stargets) :
       /\ stargets[i].spreadsheet_id = stargets[j].spreadsheet_id
       /\ stargets[i].sheet_name # stargets[j].sheet_name
       /\ sres.spreadsheetResults[i].success /\ sres.spreadsheetResults[j].success
       /\ sheetRows[<<stargets[i].spreadsheet_id, stargets[i].sheet_name>>].rows = <<>>
       /\ sheetRows[<<stargets[j].spreadsheet_id, stargets[j].sheet_name>>].rows = <<>>
       /\ sheetRows[<<stargets[i].spreadsheet_id, StocksSheet>>].rows
            = <<sdata.headers>> \o sdata.data

\* A call has ended that found active targets, whose reads succeeded, and
\* for whose date there is no TariffRecord or there is no Location
ShortCircuited ==
  /\ spc = "done" /\ sread = "none"
  /\ Len(stargets) >= 1
  /\ (GetByDate(sdate) = <<>> \/ warehouses = {})

\* C21: when there is no TariffRecord for the date or there is no Location,
\* the call makes no writer call, changes no last-sync timestamp and returns
\* success = true with successfulSyncs = failedSyncs = totalRowsWritten = 0
\* and an empty errors[].
C21_ShortCircuitIsSilent ==
  ShortCircuited =>
    /\ sops = <<>>
    /\ \A r \in spreadsheets : r.last_synced_at < syncClock
    /\ sres.success
    /\ sres.successfulSyncs = 0 /\ sres.failedSyncs = 0 /\ sres.totalRowsWritten = 0
    /\ sres.errors = <<>>

\* C21 without its part about errors[]
C21_ShortCircuitWritesNothing ==
  ShortCircuited =>
    /\ sops = <<>>
    /\ \A r \in spreadsheets : r.last_synced_at < syncClock
    /\ sres.success
    /\ sres.successfulSyncs = 0 /\ sres.failedSyncs = 0 /\ sres.totalRowsWritten = 0

C21_Witness ==
  /\ ShortCircuited
  /\ sres.success
  /\ sres.errors = <<SyncError("no_tariffs", "", "")>>

\* C22: in every result of updateTariffsForDate and of syncAllSpreadsheets,
\* a non-empty errors[] implies success = false, and success = true implies
\* that no per-record or per-target operation failed (for the publishing:
\* failedSyncs = 0).
C22_SuccessFlagMatchesErrors ==
  /\ rpc = "done" =>
       LET r == TariffUpdateResult(rres)
       IN /\ r.errors # <<>> => ~r.success
          /\ r.success => (\A i \in 1..Len(rfaults) : rfaults[i] = "none")
  /\ spc = "done" =>
       /\ sres.errors # <<>> => ~sres.success
       /\ sres.success =>
            /\ sres.failedSyncs = 0
            /\ sread = "none"
            /\ \A i \in 1..Len(sfaults) : sfaults[i] = "none"

\* The part of C22 about success = true alone
C22_SuccessImpliesNoFailure ==
  /\ rpc = "done" =>
       LET r == TariffUpdateResult(rres)
       IN /\ r.errors # <<>> => ~r.success
          /\ r.success => (\A i \in 1..Len(rfaults) : rfaults[i] = "none")
  /\ (spc = "done" /\ sres.success) =>
       /\ sres.failedSyncs = 0
       /\ sread = "none"
       /\ \A i \in 1..Len(sfaults) : sfaults[i] = "none"

C22_Witness ==
  /\ spc = "done"
  /\ Len(stargets) = 2
  /\ sres.totalSpreadsheets = 2
  /\ sres.success
  /\ Len(sres.errors) = 1

AllAbsent(b) ==
  /\ b.box_delivery_base = Absent
  /\ b.box_delivery_marketplace_base = Absent
  /\ b.box_storage_base = Absent

\* C23: the sort coefficient is computed from the three base rates with an
\* absent rate counted as zero, and it is null if and only if all three base
\* rates are absent, whatever mix of absent and numeric rates (0 included)
\* the entry has.
C23_CoefficientNullIffAllAbsent ==
  cpc = "computed" =>
    /\ cout = CalculateSortingCoefficient(
                Rates(OrZero(cin.box_delivery_base),
                      OrZero(cin.box_delivery_marketplace_base),
                      OrZero(cin.box_storage_base)))
    /\ (cout = Absent) <=> AllAbsent(cin)

\* C23 with only one direction of its equivalence
C23_AllAbsentGivesNull ==
  cpc = "computed" =>
    /\ cout = CalculateSortingCoefficient(
                Rates(OrZero(cin.box_delivery_base),
                      OrZero(cin.box_delivery_marketplace_base),
                      OrZero(cin.box_storage_base)))
    /\ AllAbsent(cin) => cout = Absent
    /\ (\E f \in DOMAIN cin : cin[f] > 0) => cout >= 0

C23_Witness ==
  /\ cpc = "computed"
  /\ cin = Rates(0, Absent, 0)
  /\ cout = Absent

\* C24: each TariffRecord a run commits stores the sort coefficient computed
\* at write time from the entry's three base rates, so that the coefficient
\* read back for publishing is the one computed during the reconciliation.
C24_CoefficientStored ==
  rpc = "done" =>
    \A r \in WrittenTariffs :
      r.sorting_coefficient = FromWarehouseData(r, r.warehouse_id, r.tariff_date).sorting_coefficient

C24_Witness ==
  /\ rpc = "done"
  /\ CleanRun
  /\ \E r \in WrittenTariffs :
       /\ r.box = Rates(100, 100, 1)
       /\ CalculateSortingCoefficient(r.box) = 100
       /\ r.sorting_coefficient = Absent

\* The sort coefficient derived from the base rates a row shows
Derived(row) == CalculateSortingCoefficient(row.box)

\* TariffRecords of the date the call publishes
RecordsOfDate == {r \in box_tariffs : r.tariff_date = sdate}

\* Row i of the data is the row of record r
RowOf(i, r) ==
  /\ sdata.data[i].warehouse_name = WarehouseName(warehouses, r.warehouse_id)
  /\ sdata.data[i].tariff_date = r.tariff_date
  /\ sdata.data[i].box = r.box

\* C25: the matrix a fault-free call publishes is the header row followed
\* by exactly one value row per TariffRecord of the date, in ascending order
\* of the derived sort coefficient with the null coefficients last; with
\* one active target and T records, totalRowsWritten = T.
C25_MatrixSortedByCoefficient ==
  CleanSync =>
    /\ Len(sdata.data) = Cardinality(RecordsOfDate)
    /\ \A r \in RecordsOfDate :
         Cardinality({i \in 1..Len(sdata.data) : RowOf(i, r)}) = 1
    /\ \A t \in 1..Len(stargets) :
         sheetRows[<<stargets[t].spreadsheet_id, StocksSheet>>].rows
           = <<sdata.headers>> \o sdata.data
    /\ Len(stargets) = 1 => sres.totalRowsWritten = Cardinality(RecordsOfDate)
    /\ \A i, j \in 1..Len(sdata.data) :
         i < j =>
           \/ Derived(sdata.data[j]) = Absent
           \/ /\ Derived(sdata.data[i]) # Absent
              /\ Derived(sdata.data[i]) <= Derived(sdata.data[j])

\* C25 without its part about the order of the rows
C25_OneRowPerRecord ==
  CleanSync =>
    /\ Len(sdata.data) = Cardinality(RecordsOfDate)
    /\ \A r \in RecordsOfDate :
         Cardinality({i \in 1..Len(sdata.data) : RowOf(i, r)}) = 1
    /\ \A t \in 1..Len(stargets) :
         sheetRows[<<stargets[t].spreadsheet_id, StocksSheet>>].rows
           = <<sdata.headers>> \o sdata.data
    /\ Len(stargets) = 1 => sres.totalRowsWritten = Cardinality(RecordsOfDate)

\* One target, two records: the row with coefficient 1.00 is published
\* above the row with coefficient 0.40, by either formatter
C25_Witness ==
  /\ CleanSync
  /\ Len(stargets) = 1
  /\ Len(sdata.data) = 2
  /\ sres.totalRowsWritten = 2
  /\ Derived(sdata.data[1]) = 100
  /\ Derived(sdata.data[2]) = 40

\* The same with the formatter that sorts by the stored coefficient
C25_WitnessByCoefficient == C25_Witness /\ sformatter = "by_coefficient"

---------------------------------------------------------------------------
(* Claims about the document writer, checked under SpecWriter *)

EligibleOutcomes == {"timeout", "network", "h429", "h503", "quota"}

\* C26: an API call of the writer is attempted at most 3 times (the first
\* attempt and 2 retries) when its failures are eligible for a retry
\* (timeout, network, 429, 5xx, quota); the delays before the retries start
\* at 1 s, grow exponentially and are capped; a failure that is not eligible
\* is not followed by another attempt.
C26_WriterRetryBound ==
  /\ Len(wouts) <= 3
  /\ Len(wdelays) = Len(wouts) - (IF wouts = <<>> THEN 0 ELSE 1)
  /\ \A i \in 1..Len(wdelays) :
       /\ wdelays[i] = Min({1000 * (2 ^ (i - 1)), maxDelay})
       /\ wouts[i] \in EligibleOutcomes
  /\ \A i \in 1..Len(wouts) :
       wouts[i] \notin EligibleOutcomes => i = Len(wouts)

\* C26 with 4 attempts in place of 3
C26_WriterRetryBoundOfFour ==
  /\ Len(wouts) <= 4
  /\ Len(wdelays) = Len(wouts) - (IF wouts = <<>> THEN 0 ELSE 1)
  /\ \A i \in 1..Len(wdelays) :
       /\ wdelays[i] = Min({1000 * (2 ^ (i - 1)), maxDelay})
       /\ wouts[i] \in EligibleOutcomes
  /\ \A i \in 1..Len(wouts) :
       wouts[i] \notin EligibleOutcomes => i = Len(wouts)

C26_Witness ==
  /\ wpc = "done"
  /\ wissued = <<"spreadsheets.get", "values.clear">>
  /\ wouts = <<"h503", "h503", "h503", "h503">>
  /\ wdelays = <<1000, 2000, 4000>>
  /\ wresult = "failure"

ContentIssued == \E i \in 1..Len(wissued) : wissued[i] \in ContentCalls

CreateCalls == {i \in 1..Len(wissued) : wissued[i] = "addSheet"}

C27_WitnessCreateFails ==
  /\ wpc = "done"
  /\ wchecked = "absent"
  /\ wissued = <<"spreadsheets.get", "addSheet">>
  /\ wresult = "failure"

C27_WitnessPresent ==
  /\ wpc = "done"
  /\ wchecked = "present"
  /\ wissued = <<"spreadsheets.get", "values.update">>
  /\ wresult = "success"

\* The existence check was refused, and the create call goes to a document
\* that has the section
C27_WitnessDenied ==
  /\ wchecked = "denied"
  /\ wexists
  /\ CreateCalls # {}

\* The loop of executeWithRetry ran out of attempts on the last API call
WriterRetriesExhausted ==
  /\ wpc = "done"
  /\ Len(wouts) = maxRetries + 1
  /\ wouts[Len(wouts)] # "ok"

\* C28: when the retries of an API call of clear, batchUpdate or append
\* are exhausted, the operation ends by throwing to its caller.
C28_WriterExhaustionIsThrown ==
  WriterRetriesExhausted => wresult = "thrown"

\* What the writer does instead: it returns an OperationResult with
\* success = false, and no outcome of any call makes it throw
C28_WriterExhaustionIsReturned ==
  /\ WriterRetriesExhausted => wresult = "failure"
  /\ wresult # "thrown"

\* The other half of C28, under SpecFetch: getTariffs ends its exhausted
\* retries by throwing an error of one of its classes
C28_FetchExhaustionIsThrown ==
  (fpc = "done" /\ Len(outcomes) = MAX_RETRIES /\ outcomes[Len(outcomes)] # "ok") =>
    fresult \in {"AuthError", "RateLimitError", "ApiError", "DateValidationError"}

C28_Witness ==
  /\ WriterRetriesExhausted
  /\ wissued = <<"spreadsheets.get", "values.append">>
  /\ wop = "append"
  /\ wresult = "failure"

C28_WitnessFetch ==
  /\ fpc = "done"
  /\ Len(outcomes) = MAX_RETRIES
  /\ outcomes[Len(outcomes)] # "ok"
  /\ fresult = "ApiError"


---------------------------------------------------------------------------
(* Claims about the classification of a cycle's failure, checked under Spec *)

\* C29: when the fetch of a scheduled cycle is rejected with HTTP 401, the
\* scheduler logs the cycle as an authorization failure, with the hint
\* about the token, and the schedule goes on.
C29_AuthFailureIsClassified ==
  (lastDone.src = "cron" /\ lastDone.fetch = "AuthError") =>
    /\ lastDone.authHint
    /\ ~lastDone.escaped

\* What such a cycle does: the updater returns a result without success,
\* the scheduler logs it as finished with errors, and nothing leaves the
\* execution; the hint is logged only for an exception that reached the
\* catch block
C29_AuthFailureIsAWarning ==
  /\ lastDone.fetch = "AuthError" =>
       /\ ~lastDone.threw
       /\ ~lastDone.success
       /\ lastDone.log = "warn"
       /\ ~lastDone.authHint
       /\ ~lastDone.escaped
  /\ lastDone.authHint => (lastDone.threw /\ lastDone.log = "critical")

C29_Witness ==
  /\ lastDone.src = "cron"
  /\ lastDone.fetch = "AuthError"
  /\ lastDone.log = "warn"
  /\ isRunning
  /\ registered # {}

\* An injected updater that throws an error naming 401
C29_WitnessThrown ==
  /\ lastDone.src = "cron"
  /\ lastDone.authHint

---------------------------------------------------------------------------
(* Claims about the credential cache, checked under SpecAuth *)

\* The step is a getAuthClient call
AuthCallStep ==
  /\ alast'.op \in {"reused", "refreshing"}
  /\ aclock' = aclock
  /\ <<alast', apending'>> # <<alast, apending>>

\* The cached token expires more than the threshold from now
FarFromExpiry ==
  /\ tokenInfo # NoToken
  /\ tokenInfo.expiryDate > aclock + 5

\* C30: a getAuthClient call reuses the cached token, without a refresh,
\* when the token expires more than the threshold from now, and starts a
\* refresh when there is no token or it is within the threshold of its
\* expiry; a refresh that fails leaves the cache empty and throws, so that
\* the next getAuthClient call starts a refresh again.
C30_CredentialCache ==
  [][/\ (AuthCallStep /\ FarFromExpiry) =>
          /\ alast'.op = "reused"
          /\ tokenInfo' = tokenInfo
          /\ apending' = apending
     /\ (AuthCallStep /\ ~FarFromExpiry) =>
          /\ alast'.op = "refreshing"
          /\ apending' = apending + 1
     /\ (alast'.op = "failed" /\ apending' = apending - 1) =>
          tokenInfo' = NoToken
     /\ (AuthCallStep /\ alast.op = "failed" /\ tokenInfo = NoToken) =>
          alast'.op = "refreshing"
     /\ tokenInfo' # tokenInfo => apending' = apending - 1]_vars

\* A token is reused a while after it was stored
C30_Witness ==
  /\ alast.op = "reused"
  /\ tokenInfo # NoToken
  /\ alast.at > 0
  /\ tokenInfo.expiryDate - alast.at = 6

\* After a failed refresh the next call has started a refresh
C30_WitnessRetry ==
  /\ alast.op = "refreshing"
  /\ tokenInfo = NoToken
  /\ apending = 1
  /\ aclock > 0

\* A token within the threshold of its expiry, and the call has started a
\* refresh
C30_WitnessNearExpiry ==
  /\ alast.op = "refreshing"
  /\ tokenInfo # NoToken
  /\ tokenInfo.expiryDate > aclock
  /\ alast.at = aclock


---------------------------------------------------------------------------
(* Claims about which tables each component writes *)

\* The rows of table spreadsheets are the same but for the two columns
\* updateLastSynced sets
SameTargetsButSyncTime ==
  /\ {[r EXCEPT !.last_synced_at = 0, !.updated_at = 0] : r \in spreadsheets'}
       = {[r EXCEPT !.last_synced_at = 0, !.updated_at = 0] : r \in spreadsheets}
  /\ Cardinality(spreadsheets') = Cardinality(spreadsheets)

\* C31: no step of syncAllSpreadsheets inserts, updates or deletes a row of
\* warehouses or box_tariffs, and the only thing it changes in the store is
\* the last-sync time of rows of spreadsheets; the calls of the writer
\* (clear, batchUpdate, append) leave the table spreadsheets as it is: a
\* target whose writer calls ran and whose updateLastSynced did not has the
\* row it had.
C31_PublisherWritesOnlySyncTime ==
  [][/\ warehouses' = warehouses
     /\ box_tariffs' = box_tariffs
     /\ trx' = trx
     /\ SameTargetsButSyncTime
     /\ (Len(sfaults') > Len(sfaults) /\ sfaults'[Len(sfaults')] # "none") =>
          spreadsheets' = spreadsheets
     /\ Len(sfaults') = Len(sfaults) => spreadsheets' = spreadsheets]_vars

\* The other half of C31, under SpecReconcile: no step of processAndSaveData
\* changes a row of spreadsheets or a document
C31_ReconcilerLeavesTargets ==
  [][spreadsheets' = spreadsheets /\ sheetRows' = sheetRows]_vars

\* A run that wrote a document and a timestamp over a store holding rows
C31_Witness ==
  /\ spc = "done"
  /\ warehouses # {}
  /\ box_tariffs # {}
  /\ \E r \in spreadsheets : r.last_synced_at > 0
  /\ \E i \in 1..Len(sfaults) : sfaults[i] = "persist"
  /\ \E k \in DOMAIN sheetRows : sheetRows[k].rows # <<>>

\* A reconciliation has committed rows next to the targets
C31_WitnessReconcile ==
  /\ rpc = "done"
  /\ warehouses # {}
  /\ box_tariffs # {}
  /\ spreadsheets # {}


---------------------------------------------------------------------------
(* Claims about the initialization of the targets, under SpecInitializer *)

TargetKeyOf(r) == <<r.spreadsheet_id, r.sheet_name>>

CleanInit(faults) == \A i \in 1..Len(faults) : faults[i] = "none"

\* C32: a step of the initialization adds at most the row of the
\* identifier at hand, active and never synchronised, and only when the
\* table has no row with that (spreadsheet_id, sheet_name); rows already
\* there stay as they are and the key stays unique; a second run after a
\* run without failures creates nothing and fails nowhere; every
\* identifier of the list is processed whatever failed before it, and each
\* one that met no failure has its row when the run ends.
C32_InitializationIsIdempotent ==
  /\ [](/\ \A r1, r2 \in spreadsheets : TargetKeyOf(r1) = TargetKeyOf(r2) => r1 = r2
        /\ (ipc = "done" /\ irun = 2 /\ CleanInit(iprev) /\ CleanInit(ifaults)) =>
             (icounts.created = 0 /\ icounts.errors = 0)
        /\ ipc = "done" =>
             /\ Len(ifaults) = Len(iids)
             /\ icounts.created + icounts.alreadyExists + icounts.errors = Len(iids)
             /\ \A i \in 1..Len(iids) :
                  ifaults[i] = "none" =>
                    \E r \in spreadsheets : TargetKeyOf(r) = <<iids[i], DefaultSheetName>>)
  /\ [][/\ spreadsheets \subseteq spreadsheets'
         /\ \A r \in spreadsheets' \ spreadsheets :
              /\ ipc = "loop"
              /\ TargetKeyOf(r) = <<iids[iidx], DefaultSheetName>>
              /\ r.is_active
              /\ r.last_synced_at = 0
              /\ \A q \in spreadsheets : TargetKeyOf(q) # TargetKeyOf(r)
              /\ spreadsheets' = spreadsheets \cup {r}]_vars

\* Two runs over a list that repeats an identifier and a table holding
\* another section of the same document: the first created rows, the
\* second found them all
C32_Witness ==
  /\ ipc = "done"
  /\ irun = 2
  /\ iids = <<"doc2", "doc1", "doc2">>
  /\ CleanInit(iprev) /\ CleanInit(ifaults)
  /\ Len(iprev) = 3
  /\ icounts = [created |-> 0, alreadyExists |-> 3, errors |-> 0]
  /\ Cardinality(spreadsheets) = 3

\* A failure at the first identifier, and the second was created
C32_WitnessFailure ==
  /\ ipc = "done"
  /\ irun = 1
  /\ iids = <<"doc3", "doc1">>
  /\ ifaults = <<"create", "none">>
  /\ icounts = [created |-> 1, alreadyExists |-> 0, errors |-> 1]

---------------------------------------------------------------------------
(* Further claims about reconciliation, checked under SpecReconcile *)

\* C33: when processAndSaveData has ended, warehousesProcessed is the
\* number of Locations and tariffsProcessed the number of TariffRecords
\* that the run upserted and that are committed in the store, whichever
\* entries failed and at whichever step.
C33_CountsMatchTheStore ==
  rpc = "done" =>
    /\ rres.warehousesProcessed = Cardinality(WrittenWarehouses)
    /\ rres.tariffsProcessed = Cardinality(WrittenTariffs)

NoStatementRejected ==
  \A i \in 1..Len(rfaults) : rfaults[i] \notin {"wh_sql", "tf_sql"}

\* The counts are those of the store when the run committed and the store
\* rejected no statement
C33_CountsMatchAfterCleanCommit ==
  (rpc = "done" /\ rres.ended = "commit" /\ NoStatementRejected) =>
    /\ rres.warehousesProcessed = Cardinality(WrittenWarehouses)
    /\ rres.tariffsProcessed = Cardinality(WrittenTariffs)

\* Every entry failed at its tariff step and the transaction was rolled back
C33_Witness ==
  /\ rpc = "done"
  /\ rfaults = <<"tf_client", "tf_client">>
  /\ rres.ended = "rollback"
  /\ rres.warehousesProcessed = 2
  /\ rres.tariffsProcessed = 0
  /\ WrittenWarehouses = {}

---------------------------------------------------------------------------
(* Further claims about publishing, checked under SpecSync *)

\* The call has ended after its loop over the active targets
LoopRan == spc = "done" /\ sfaults # <<>>

\* C34: when the loop over the active targets has run, every target is
\* counted once, successfulSyncs + failedSyncs = totalSpreadsheets, and
\* totalRowsWritten is the number of value rows times successfulSyncs,
\* whichever targets failed and however, a failing updateLastSynced
\* included.
C34_EveryTargetCountedOnce ==
  LoopRan =>
    /\ sres.totalSpreadsheets = Len(stargets)
    /\ sres.successfulSyncs + sres.failedSyncs = sres.totalSpreadsheets
    /\ sres.totalRowsWritten = Len(sdata.data) * sres.successfulSyncs

\* The same without a failing updateLastSynced; with one, the target is
\* counted in both counters
C34_CountedOnceUnlessPersistFails ==
  LoopRan =>
    /\ sres.totalSpreadsheets = Len(stargets)
    /\ sres.totalRowsWritten = Len(sdata.data) * sres.successfulSyncs
    /\ sres.successfulSyncs + sres.failedSyncs =
         sres.totalSpreadsheets
           + Cardinality({i \in 1..Len(sfaults) : sfaults[i] = "persist"})

C34_Witness ==
  /\ LoopRan
  /\ sfaults = <<"persist">>
  /\ sres.totalSpreadsheets = 1
  /\ sres.successfulSyncs = 1
  /\ sres.failedSyncs = 1
  /\ sres.totalRowsWritten = Len(sdata.data)
  /\ sdata.data # <<>>


OpRank(op) == CASE op = "clear" -> 1 [] op = "batchUpdate" -> 2 [] OTHER -> 3

\* C35: the writer calls of a run come target by target, in the order of
\* the active-target query (spreadsheet_id, then sheet_name), the calls of
\* one target never mixed with those of another; within a target they are
\* clear, then the header write, then the append, each issued only after
\* the one before it succeeded, so that a failed call is the last call of
\* its target.
C35_WriterCallsInOrder ==
  /\ (spc \in {"loop", "done"} /\ sread = "none") =>
       /\ Len(stargets) = Len(GetActive)
       /\ \A i \in 1..Len(stargets) :
            /\ stargets[i].spreadsheet_id = GetActive[i].spreadsheet_id
            /\ stargets[i].sheet_name = GetActive[i].sheet_name
       /\ \A i, j \in 1..Len(stargets) :
            i < j => (TargetBefore(stargets[i], stargets[j])
                      /\ ~TargetBefore(stargets[j], stargets[i]))
  /\ sops # <<>> => (sops[1].target = 1 /\ sops[1].call.op = "clear")
  /\ \A k \in 1..(Len(sops) - 1) :
       \/ /\ sops[k + 1].target = sops[k].target
          /\ OpRank(sops[k + 1].call.op) = OpRank(sops[k].call.op) + 1
          /\ sops[k].call.ok
       \/ /\ sops[k + 1].target = sops[k].target + 1
          /\ sops[k + 1].call.op = "clear"

\* Two targets, the first stopped by its failed header write, the second
\* written in full
C35_Witness ==
  /\ spc = "done"
  /\ sfaults = <<"batchUpdate", "none">>
  /\ Len(sops) = 5
  /\ sops[2].call.op = "batchUpdate" /\ ~sops[2].call.ok
  /\ sops[3].target = 2
  /\ sops[5].call.op = "append" /\ sops[5].call.ok

\* The positions of the end calls that returned
EndedCalls == {i \in 1..Len(rres.endCalls) : rres.endCalls[i].outcome = "ok"}

C36_WitnessAllFail ==
  /\ rpc = "done"
  /\ Len(rbatch) = 2 /\ Len(rres.errors) = 2
  /\ rres.endCalls = <<EndCall("rollback", "ok")>>
  /\ ~trx.open

\* The fetch failed after an earlier cycle committed
C36_WitnessFetchFails ==
  /\ rpc = "fetch_failed"
  /\ prevRun.ran /\ box_tariffs # {}
  /\ rres.begins = 0

---------------------------------------------------------------------------
(* Claims about concurrent cycles, checked under SpecConcurrent *)

Committed == {c \in Cycles : cyc[c].committed}

\* Entries for a location name in the batches of the cycles that committed
EntriesFor(name) ==
  UNION {{cyc[c].batch[i] : i \in {j \in 1..Len(cyc[c].batch) :
                                     cyc[c].batch[j].warehouseName = name}} :
         c \in Committed}

\* C37: two reconcile cycles for the same date, interleaved entry by entry,
\* leave exactly one Location per name and exactly one TariffRecord per
\* (location, date), and the fields of each come from one of the two cycles:
\* the store never holds two Locations of one name or id nor two
\* TariffRecords of one key, and when both cycles are over every name of a
\* committed cycle has its Location and its TariffRecord, both carrying the
\* entry of one committed cycle, and the store holds nothing else.
C37_ConcurrentCyclesConverge ==
  /\ \A r1, r2 \in warehouses :
       (r1.warehouse_name = r2.warehouse_name \/ r1.id = r2.id) => r1 = r2
  /\ \A r1, r2 \in box_tariffs : SameTariffKey(r1, r2) => r1 = r2
  /\ (\A c \in Cycles : cyc[c].pc = "done") =>
       /\ Committed # {}
       /\ \A c \in Committed : \A i \in 1..Len(cyc[c].batch) :
            \E w \in warehouses : \E t \in box_tariffs :
              /\ w.warehouse_name = cyc[c].batch[i].warehouseName
              /\ t.warehouse_id = w.id /\ t.tariff_date = ConcDate
       /\ \A w \in warehouses :
            \E t \in box_tariffs : \E e \in EntriesFor(w.warehouse_name) :
              /\ t.warehouse_id = w.id /\ t.tariff_date = ConcDate
              /\ w.geo_name = e.geoName /\ t.box = e.box
       /\ \A t \in box_tariffs : \E w \in warehouses : t.warehouse_id = w.id

\* Both cycles ran at once on the same names with different payloads, in
\* opposite orders, and one of them was the victim of the deadlock
C37_Witness ==
  /\ \A c \in Cycles : cyc[c].pc = "done" /\ cyc[c].overlapped /\ Len(cyc[c].batch) = 2
  /\ cyc["A"].batch[1].warehouseName = cyc["B"].batch[2].warehouseName
  /\ cyc["A"].batch[1].geoName # cyc["B"].batch[1].geoName
  /\ Committed = {"B"} /\ cyc["A"].errors = 1 /\ cyc["A"].tariffsProcessed = 1
  /\ Cardinality(warehouses) = 2 /\ Cardinality(box_tariffs) = 2

\* Both cycles ran at once and committed: the second to commit rewrote the
\* row the first had inserted
C37_WitnessBothCommit ==
  /\ \A c \in Cycles : cyc[c].pc = "done" /\ cyc[c].overlapped /\ Len(cyc[c].batch) = 2
  /\ Committed = Cycles
  /\ cyc["A"].batch[1].geoName # cyc["B"].batch[1].geoName
  /\ \A w \in warehouses : w.created_at = 1 /\ w.updated_at = 2
  /\ Cardinality(warehouses) = 2 /\ Cardinality(box_tariffs) = 2

---------------------------------------------------------------------------
(* Claims about the time spent backing off, checked under SpecWriter *)

RECURSIVE SumOfDelays(_)
SumOfDelays(q) == IF q = <<>> THEN 0 ELSE Head(q) + SumOfDelays(Tail(q))

\* C38: the delays slept inside one fetchTariffs call, and inside one writer
\* operation with its ensure step, add up to 7 seconds (1 + 2 + 4) at most.
C38_BackoffWithinSevenSeconds ==
  /\ SumOfDelays(delays) <= 7000
  /\ wslept <= 7000

\* The delays of one API call of the writer add up to 7 seconds at most, and
\* those of one operation, which makes up to three API calls, to 21 seconds
C38_BackoffWithinSevenSecondsPerCall ==
  /\ SumOfDelays(wdelays) <= 7000
  /\ wslept <= 3 * 7000
  /\ wslept <= 7000 * Len(wissued)

\* The delays of one fetch add up to 3 seconds at most (checked under
\* SpecFetch)
C38_FetchBackoffWithinThreeSeconds == SumOfDelays(delays) <= 3000

\* The check, the creation and the clear each succeeded at the fourth attempt
C38_Witness ==
  /\ wpc = "done"
  /\ wop = "clear"
  /\ wissued = <<"spreadsheets.get", "addSheet", "values.clear">>
  /\ wresult = "success"
  /\ wslept = 21000

---------------------------------------------------------------------------
(* Claims about the credential of the writer, checked under SpecCredential *)

\* C39: before every writer operation the validity of the cached credential
\* is checked, and if it is missing or within the threshold of expiry it is
\* refreshed before the document API call is issued: no call is issued with
\* a credential that is missing or near expiry and was not refreshed.
C39_CredentialFreshAtEveryCall ==
  ucall.issued => (ucall.valid \/ ucall.refreshed)

\* The validity is checked, and the credential refreshed when missing or
\* near expiry, exactly before the calls of the operation that builds the
\* service handle
C39_CredentialCheckedWhenHandleIsBuilt ==
  ucall.issued =>
    /\ ucall.checked <=> ~ucall.cached
    /\ ucall.checked => (ucall.valid \/ ucall.refreshed)

\* A call is issued through the cached handle after the token has expired
C39_Witness ==
  /\ ucall.issued /\ ucall.cached
  /\ ~ucall.checked /\ ~ucall.valid
  /\ tokenInfo # NoToken
  /\ tokenInfo.expiryDate <= aclock

---------------------------------------------------------------------------
(* Claims about the scheduler's flag and trigger, checked under Spec *)

\* C40: in every reachable state the running flag is true exactly when a
\* trigger is registered, and the reported nextRun is null exactly when the
\* scheduler is Stopped, after any sequence of start(), stop(), runNow() and
\* ticks, also when registering or stopping the trigger throws: a call that
\* throws changes nothing. A start() that returns leaves the scheduler
\* Running, and after a stop() it registers a trigger that was not
\* registered.
C40_FlagMatchesTrigger ==
  /\ [](/\ isRunning <=> task # NoTask
        /\ registered = (IF isRunning THEN {task} ELSE {})
        /\ GetSchedulerInfo.nextRun = Null <=> StateName = "Stopped"
        /\ lastCall.threw => ~lastCall.changed
        /\ (lastCall.op = "start" /\ ~lastCall.threw) => isRunning
        /\ (lastCall.op = "stop" /\ ~lastCall.threw) => ~isRunning)
  /\ [][(lastCall'.op = "start" /\ ~lastCall'.threw /\ lastCall' # lastCall /\ ~isRunning) =>
          (isRunning' /\ task' \in registered' /\ task' \notin registered)]_vars

\* stop() threw while Running, after a tick: the scheduler is still Running
\* with its trigger
C40_Witness ==
  /\ lastCall = [op |-> "stop", pre |-> "Running", threw |-> TRUE, changed |-> FALSE]
  /\ isRunning /\ registered = {task}
  /\ now >= 60

\* start() threw: the scheduler is still Stopped
C40_WitnessStartThrows ==
  /\ lastCall = [op |-> "start", pre |-> "Stopped", threw |-> TRUE, changed |-> FALSE]
  /\ ~isRunning /\ registered = {}
  /\ GetSchedulerInfo.nextRun = Null

\* start() after a stop(), with a cycle of the earlier trigger still in
\* flight
C40_WitnessRestart ==
  /\ lastCall = [op |-> "start", pre |-> "Stopped", threw |-> FALSE, changed |-> TRUE]
  /\ isRunning /\ registered = {task}
  /\ inflight.cron = 1
  /\ now >= 60

====
